---- MODULE Spec2Model ----
(***************************************************************************)
(* Model of the emotion detection service (EmotionDetectionService):      *)
(* the rate-limited request queue, the retry wrapper, the result cache,   *)
(* the rule-based fallback classifier and the record construction.        *)
(*                                                                         *)
(* Conventions.  A JavaScript string is a sequence of one-character       *)
(* strings.  A float in [0,1] is an integer number of thousandths         *)
(* (FloatScale), so 0.5 is 500 and 0.85 is 850.  Times are milliseconds.   *)
(* An optional field of a parsed reply is <<>> (absent) or <<v>>.          *)
(***************************************************************************)
EXTENDS Integers, Sequences, FiniteSets, TLC

\* ---------------------------------------------------------------- bounds
MaxCalls == 2          \* classify calls made in one behaviour

\* ------------------------------------------------------ program constants
RATE_LIMIT_DELAY == 3000
MAX_RETRIES == 3
baseDelay == 2000
CACHE_LIMIT == 100
MIN_TEXT_LENGTH == 10
FloatScale == 1000

\* the clock advances in steps of a third of the rate-limit delay
TickMs == RATE_LIMIT_DELAY \div 3

Min(a, b) == IF a < b THEN a ELSE b
Max(a, b) == IF a > b THEN a ELSE b

RECURSIVE Pow2(_)
Pow2(n) == IF n = 0 THEN 1 ELSE 2 * Pow2(n - 1)

\* ------------------------------------------------------------- strings
UpperAlpha == <<"A", "B", "C", "D", "E", "F", "G", "H", "I", "J", "K", "L", "M",
                "N", "O", "P", "Q", "R", "S", "T", "U", "V", "W", "X", "Y", "Z">>
LowerAlpha == <<"a", "b", "c", "d", "e", "f", "g", "h", "i", "j", "k", "l", "m",
                "n", "o", "p", "q", "r", "s", "t", "u", "v", "w", "x", "y", "z">>
DigitChars == <<"0", "1", "2", "3", "4", "5", "6", "7", "8", "9">>
Whitespace == {" ", "\t", "\n"}

IsUpper(ch) == \E i \in 1..26 : UpperAlpha[i] = ch

ToLowerChar(ch) ==
  IF IsUpper(ch) THEN LowerAlpha[CHOOSE i \in 1..26 : UpperAlpha[i] = ch] ELSE ch

\* String.prototype.toLowerCase
ToLowerCase(s) == [i \in 1..Len(s) |-> ToLowerChar(s[i])]

\* String.prototype.trim
Trim(s) ==
  LET keep == {i \in 1..Len(s) : s[i] \notin Whitespace}
  IN  IF keep = {} THEN <<>>
      ELSE LET lo == CHOOSE i \in keep : \A j \in keep : i <= j
               hi == CHOOSE i \in keep : \A j \in keep : i >= j
           IN  SubSeq(s, lo, hi)

\* template-literal rendering of a non-negative integer
RECURSIVE NumberToString(_)
NumberToString(n) ==
  IF n < 10 THEN <<DigitChars[n + 1]>>
  ELSE NumberToString(n \div 10) \o <<DigitChars[(n % 10) + 1]>>

MatchesAt(s, kw, i) ==
  /\ i + Len(kw) - 1 <= Len(s)
  /\ \A j \in 1..Len(kw) : s[i + j - 1] = kw[j]

\* (s.match(new RegExp(kw, 'g')) || []).length : non-overlapping matches,
\* scanned left to right; every keyword is a literal
RECURSIVE CountFrom(_, _, _)
CountFrom(s, kw, i) ==
  IF i + Len(kw) - 1 > Len(s) THEN 0
  ELSE IF MatchesAt(s, kw, i) THEN 1 + CountFrom(s, kw, i + Len(kw))
  ELSE CountFrom(s, kw, i + 1)

Occurrences(s, kw) == CountFrom(s, kw, 1)

\* text.split(' ').length
WordCount(s) == Cardinality({i \in 1..Len(s) : s[i] = " "}) + 1

\* /[A-Z]{2,}/.test(text)
HasCapitals(s) == \E i \in 1..(Len(s) - 1) : IsUpper(s[i]) /\ IsUpper(s[i + 1])

Includes(s, ch) == \E i \in 1..Len(s) : s[i] = ch

\* ------------------------------------------------------------- labels
EmotionLabel == {"happy", "neutral", "nervous", "confident", "stressed", "excited",
                 "disappointed", "frustrated", "calm", "uncertain"}

emotionPatterns ==
  <<
     [emotion |-> "confident", keywords |-> <<
        <<"s", "u", "r", "e">>,
        <<"d", "e", "f", "i", "n", "i", "t", "e", "l", "y">>,
        <<"a", "b", "s", "o", "l", "u", "t", "e", "l", "y">>,
        <<"i", " ", "k", "n", "o", "w">>,
        <<"c", "e", "r", "t", "a", "i", "n">>,
        <<"e", "x", "p", "e", "r", "i", "e", "n", "c", "e">>>>],
     [emotion |-> "nervous", keywords |-> <<
        <<"u", "m">>,
        <<"u", "h">>,
        <<"i", " ", "t", "h", "i", "n", "k">>,
        <<"m", "a", "y", "b", "e">>,
        <<"n", "o", "t", " ", "s", "u", "r", "e">>,
        <<"i", " ", "g", "u", "e", "s", "s">>>>],
     [emotion |-> "excited", keywords |-> <<
        <<"g", "r", "e", "a", "t">>,
        <<"a", "m", "a", "z", "i", "n", "g">>,
        <<"l", "o", "v", "e">>,
        <<"e", "x", "c", "i", "t", "e", "d">>,
        <<"f", "a", "n", "t", "a", "s", "t", "i", "c">>,
        <<"w", "o", "n", "d", "e", "r", "f", "u", "l">>>>],
     [emotion |-> "stressed", keywords |-> <<
        <<"d", "i", "f", "f", "i", "c", "u", "l", "t">>,
        <<"h", "a", "r", "d">>,
        <<"s", "t", "r", "u", "g", "g", "l", "e">>,
        <<"c", "h", "a", "l", "l", "e", "n", "g", "i", "n", "g">>,
        <<"o", "v", "e", "r", "w", "h", "e", "l", "m", "i", "n", "g">>>>],
     [emotion |-> "frustrated", keywords |-> <<
        <<"b", "u", "t">>,
        <<"h", "o", "w", "e", "v", "e", "r">>,
        <<"u", "n", "f", "o", "r", "t", "u", "n", "a", "t", "e", "l", "y">>,
        <<"p", "r", "o", "b", "l", "e", "m">>,
        <<"i", "s", "s", "u", "e">>>>],
     [emotion |-> "calm", keywords |-> <<
        <<"o", "k", "a", "y">>,
        <<"f", "i", "n", "e">>,
        <<"a", "l", "r", "i", "g", "h", "t">>,
        <<"s", "t", "e", "a", "d", "y">>,
        <<"s", "t", "a", "b", "l", "e">>>>],
     [emotion |-> "happy", keywords |-> <<
        <<"g", "o", "o", "d">>,
        <<"w", "e", "l", "l">>,
        <<"p", "o", "s", "i", "t", "i", "v", "e">>,
        <<"p", "l", "e", "a", "s", "e", "d">>,
        <<"s", "a", "t", "i", "s", "f", "i", "e", "d">>>>],
     [emotion |-> "disappointed", keywords |-> <<
        <<"n", "o", "t", " ", "g", "o", "o", "d">>,
        <<"u", "n", "f", "o", "r", "t", "u", "n", "a", "t", "e", "l", "y">>,
        <<"s", "a", "d", "l", "y">>,
        <<"f", "a", "i", "l", "e", "d">>,
        <<"d", "i", "s", "a", "p", "p", "o", "i", "n", "t", "e", "d">>>>]
  >>

\* ------------------------------------------------- fallback classifier
RECURSIVE KeywordScore(_, _, _)
KeywordScore(lowerText, keywords, i) ==
  IF i > Len(keywords) THEN 0
  ELSE Occurrences(lowerText, keywords[i]) + KeywordScore(lowerText, keywords, i + 1)

\* a comparison that lets a later category win a tie
ScoreBeatsOrTies(score, maxScore) == score >= maxScore

ScoreBeats(score, maxScore) == score > maxScore

\* the forEach over Object.entries(emotionPatterns), in declaration order
RECURSIVE ScanPatterns(_, _, _, _)
ScanPatterns(lowerText, i, maxScore, detectedEmotion) ==
  IF i > Len(emotionPatterns)
  THEN [maxScore |-> maxScore, detectedEmotion |-> detectedEmotion]
  ELSE LET score == KeywordScore(lowerText, emotionPatterns[i].keywords, 1)
       IN  IF ScoreBeats(score, maxScore)
           THEN ScanPatterns(lowerText, i + 1, score, emotionPatterns[i].emotion)
           ELSE ScanPatterns(lowerText, i + 1, maxScore, detectedEmotion)

DetectEmotion(text) == ScanPatterns(ToLowerCase(text), 1, 0, "neutral")

\* Math.min(0.3 + (maxScore / wordCount) * 2, 0.85), in thousandths
FallbackConfidence(maxScore, wordCount) ==
  Min(300 + (2 * maxScore * FloatScale) \div wordCount, 850)

FallbackIntensity(text, maxScore) ==
  IF HasCapitals(text) \/ Includes(text, "!") \/ maxScore > 2 THEN "high"
  ELSE IF maxScore = 0 \/ Len(text) < 20 THEN "low"
  ELSE "medium"

\* timestamp / 1000, a float in thousandths
SecondsFromStart(timestamp) == (timestamp * FloatScale) \div 1000

\* a classifier whose confidence falls with the time of the call
fallbackTextAnalysisTimed(text, timestamp, speakingDuration) ==
  LET scan == DetectEmotion(text)
      wordCount == WordCount(text)
      confidence == FallbackConfidence(scan.maxScore, wordCount)
                      - timestamp \div 100
  IN  [emotion |-> scan.detectedEmotion,
       confidence |-> confidence,
       timestamp |-> timestamp,
       secondsFromStart |-> SecondsFromStart(timestamp),
       duration |-> speakingDuration,
       intensity |-> FallbackIntensity(text, scan.maxScore),
       additionalMetrics |->
         [stress_level |-> IF scan.detectedEmotion \in {"nervous", "stressed"}
                           THEN 700 ELSE 300,
          energy_level |-> IF scan.detectedEmotion \in {"excited", "confident"}
                           THEN 800 ELSE 500,
          speaking_pace |-> IF wordCount > 50 THEN "fast"
                            ELSE IF wordCount < 20 THEN "slow" ELSE "normal",
          voice_stability |-> confidence]]

fallbackTextAnalysis(text, timestamp, speakingDuration) ==
  LET scan == DetectEmotion(text)
      wordCount == WordCount(text)
      confidence == FallbackConfidence(scan.maxScore, wordCount)
  IN  [emotion |-> scan.detectedEmotion,
       confidence |-> confidence,
       timestamp |-> timestamp,
       secondsFromStart |-> SecondsFromStart(timestamp),
       duration |-> speakingDuration,
       intensity |-> FallbackIntensity(text, scan.maxScore),
       additionalMetrics |->
         [stress_level |-> IF scan.detectedEmotion \in {"nervous", "stressed"}
                           THEN 700 ELSE 300,
          energy_level |-> IF scan.detectedEmotion \in {"excited", "confident"}
                           THEN 800 ELSE 500,
          speaking_pace |-> IF wordCount > 50 THEN "fast"
                            ELSE IF wordCount < 20 THEN "slow" ELSE "normal",
          voice_stability |-> confidence]]

\* --------------------------------------------------- replies and errors
\* What result.response.text() can hold, after result.match(/\{[\s\S]*\}/)
\* and JSON.parse: no brace-delimited part, a part that is not JSON, or an
\* object whose fields may be missing.
Absent == <<>>

ReplyObject(e, c, i, s, en, p, v) ==
  [kind |-> "object", emotion |-> e, confidence |-> c, intensity |-> i,
   stress_level |-> s, energy_level |-> en, speaking_pace |-> p,
   voice_stability |-> v]

ReplyFull == ReplyObject(<<"happy">>, <<850>>, <<"high">>, <<300>>, <<700>>,
                         <<"fast">>, <<800>>)
ReplyEmpty == ReplyObject(Absent, Absent, Absent, Absent, Absent, Absent, Absent)
ReplyOutOfRange == ReplyObject(<<"angry">>, <<1500>>, <<"low">>, <<1700>>, <<-200>>,
                               <<"slow">>, <<2000>>)
ReplyZero == ReplyObject(<<"calm">>, <<0>>, <<"low">>, <<0>>, <<0>>, <<"normal">>, <<0>>)
\* a reply whose label is calm while its stress level is high
ReplyTense == ReplyObject(<<"calm">>, <<600>>, <<"medium">>, <<900>>, <<400>>,
                          <<"normal">>, <<500>>)
ReplyNoMatch == [kind |-> "nomatch"]
ReplyNotJson == [kind |-> "notjson"]

Replies == {ReplyFull, ReplyEmpty, ReplyOutOfRange, ReplyZero, ReplyNoMatch,
            ReplyNotJson}

Err429 == <<"g", "o", "t", " ", "4", "2", "9">>
ErrQuota == <<"q", "u", "o", "t", "a", " ", "h", "i", "t">>
ErrAuth == <<"4", "0", "3", " ", "b", "a", "d", " ", "k", "e", "y">>
ErrNetwork == <<"f", "e", "t", "c", "h", " ", "f", "a", "i", "l", "e", "d">>
ErrorMessages == {Err429, ErrQuota, ErrAuth, ErrNetwork}

\* error.message?.includes('429') || error.message?.includes('quota')
IsRateLimitError(message) ==
  \/ Occurrences(message, <<"4", "2", "9">>) > 0
  \/ Occurrences(message, <<"q", "u", "o", "t", "a">>) > 0

\* ------------------------------------------------------ record builder
\* v || d : undefined and 0 are falsy
OrDefault(field, d) ==
  IF field = Absent THEN d ELSE IF field[1] = 0 THEN d ELSE field[1]

\* v || d for a string field : undefined and '' are falsy
OrDefaultStr(field, d) ==
  IF field = Absent THEN d ELSE IF field[1] = "" THEN d ELSE field[1]

\* Math.min(Math.max(x, 0), 1)
Clamp01(x) == Min(Max(x, 0), FloatScale)

\* analysis.emotion as EmotionLabel : a cast, no check at run time
CastEmotion(field) == IF field = Absent THEN "undefined" ELSE field[1]

BuildConfidence(analysis) == Clamp01(OrDefault(analysis.confidence, 500))

BuildMetrics(analysis) ==
  [stress_level |-> OrDefault(analysis.stress_level, 500),
   energy_level |-> OrDefault(analysis.energy_level, 500),
   speaking_pace |-> OrDefaultStr(analysis.speaking_pace, "normal"),
   voice_stability |-> OrDefault(analysis.voice_stability, 500)]

BuildEmotionData(analysis, timestamp, speakingDuration) ==
  [emotion |-> CastEmotion(analysis.emotion),
   confidence |-> BuildConfidence(analysis),
   timestamp |-> timestamp,
   secondsFromStart |-> SecondsFromStart(timestamp),
   duration |-> speakingDuration,
   intensity |-> OrDefaultStr(analysis.intensity, "medium"),
   additionalMetrics |-> BuildMetrics(analysis)]

CacheableData(emotionData) ==
  [emotion |-> emotionData.emotion,
   confidence |-> emotionData.confidence,
   duration |-> emotionData.duration,
   intensity |-> emotionData.intensity,
   additionalMetrics |-> emotionData.additionalMetrics]

\* a hit that does not refresh the time fields
FromCacheStale(cachedResult, timestamp) ==
  [emotion |-> cachedResult.emotion,
   confidence |-> cachedResult.confidence,
   timestamp |-> 0,
   secondsFromStart |-> 0,
   duration |-> cachedResult.duration,
   intensity |-> cachedResult.intensity,
   additionalMetrics |-> cachedResult.additionalMetrics]

\* { ...cachedResult, timestamp, secondsFromStart: timestamp / 1000 }
FromCache(cachedResult, timestamp) ==
  [emotion |-> cachedResult.emotion,
   confidence |-> cachedResult.confidence,
   timestamp |-> timestamp,
   secondsFromStart |-> SecondsFromStart(timestamp),
   duration |-> cachedResult.duration,
   intensity |-> cachedResult.intensity,
   additionalMetrics |-> cachedResult.additionalMetrics]

\* ------------------------------------------------------------- cache
\* emotionCache is a Map: a sequence of [key, value] in insertion order.
\* Each entry also carries seq, a history field the code does not have:
\* the number of the insertion that added the key.
CacheKey(text, speakingDuration) ==
  ToLowerCase(Trim(text)) \o <<"_">> \o NumberToString(speakingDuration)

CacheKeys(cache) == {cache[i].key : i \in 1..Len(cache)}
CacheHas(cache, key) == \E i \in 1..Len(cache) : cache[i].key = key
CacheIndex(cache, key) == CHOOSE i \in 1..Len(cache) : cache[i].key = key
CacheGet(cache, key) == cache[CacheIndex(cache, key)].value

\* a cache that moves the entry it serves to the newest position
CacheMoveToEnd(cache, key) ==
  LET i == CacheIndex(cache, key)
  IN  [j \in 1..Len(cache) |->
         IF j < i THEN cache[j] ELSE IF j < Len(cache) THEN cache[j + 1] ELSE cache[i]]

\* Map.prototype.get on a hit leaves the Map as it is
CacheAfterHit(cache, key) == cache

\* Map.prototype.set : a key already present keeps its position
CacheSet(cache, key, value, seq) ==
  IF CacheHas(cache, key)
  THEN [cache EXCEPT ![CacheIndex(cache, key)].value = value]
  ELSE Append(cache, [key |-> key, value |-> value, seq |-> seq])

\* a cache that never deletes
CacheNoTrim(cache) == cache

\* if (size > 100) { firstKey = keys().next().value; if (firstKey) delete }
CacheTrim(cache) ==
  IF Len(cache) > CACHE_LIMIT
  THEN IF cache[1].key # <<>> THEN Tail(cache) ELSE cache
  ELSE cache

\* ------------------------------------------------------------- inputs
TextSure == <<"I", " ", "a", "m", " ", "S", "U", "R", "E", "!">>
TextSureSpaced == <<" ", "i", " ", "a", "m", " ", "s", "u", "r", "e", "!", " ">>
TextShort == <<"u", "h", ",", " ", "h", "a", "r", "d", "!">>
TextFine == <<"o", "k", "a", "y", " ", "f", "i", "n", "e", " ", "t", "h", "e", "n">>
Texts == {TextSure, TextSureSpaced, TextShort, TextFine}
\* texts for the fallback classifier: no keyword, ties between categories
\* in either order of appearance, keywords of two categories that overlap,
\* capitals, and a strict maximum in the last category
TextNoKeyword == <<"h", "e", "l", "l", "o", " ", "t", "h", "e", "r", "e">>
TextCalmHappy == <<"o", "k", "a", "y", " ", "g", "o", "o", "d">>
TextHappyCalm == <<"g", "o", "o", "d", " ", "a", "n", "d", " ", "o", "k", "a",
                   "y">>
TextHappyTwice == <<"w", "e", "l", "l", " ", "g", "o", "o", "d", " ", "o", "k",
                    "a", "y">>
TextUnfortunately == <<"u", "n", "f", "o", "r", "t", "u", "n", "a", "t", "e", "l",
                       "y">>
TextNotSure == <<"i", " ", "a", "m", " ", "n", "o", "t", " ", "s", "u", "r",
                 "e">>
TextNotGood == <<"n", "o", "t", " ", "g", "o", "o", "d">>
TextGreat == <<"G", "R", "E", "A", "T", " ", "g", "r", "e", "a", "t", "!">>
TextUmUh == <<"u", "m", ",", " ", "u", "h", ",", " ", "h", "a", "r", "d">>
TextSadly == <<"s", "a", "d", "l", "y", " ", "f", "a", "i", "l", "e", "d",
               ",", " ", "b", "u", "t", " ", "f", "i", "n", "e">>
FallbackTexts ==
  {TextNoKeyword, TextCalmHappy, TextHappyCalm, TextHappyTwice,
   TextUnfortunately, TextNotSure, TextNotGood, TextGreat, TextUmUh, TextSadly,
   TextSure, TextShort, TextFine}
Timestamps == {1000, 2500}
Durations == {0, 1}
Jitters == {0, 999}

\* ================================================================ state
\* Times are kept as elapsed and remaining times: the code reads
\* lastRequestTime only in Date.now() - lastRequestTime, compared with
\* RATE_LIMIT_DELAY, so the elapsed time is capped there.
VARIABLES
  envApiKey,            \* process.env holds an API key
  envFallbackOnly,      \* process.env.EMOTION_DETECTION_FALLBACK_ONLY === 'true'
  ctorApiKey,           \* the key the constructor gave to GoogleGenerativeAI
  ctorFallbackOnly,     \* history: the flag as the constructor read it, where recorded
  requestQueue,         \* queued closures, named by the call that queued them
  isProcessingQueue,
  timeSinceLastRequest, \* Date.now() - lastRequestTime, capped
  requestCount,
  emotionCache,
  rpc,                  \* per call: new, queued, calling, backoff, settled, done
  args,                 \* per pending call: (text, timestamp, speakingDuration)
  attempt,              \* per pending call: the loop variable of retryWithBackoff
  timer,                \* per pending call: what is left of its backoff sleep
  settle,               \* per pending call: how makeRateLimitedRequest settled
  wpc,                  \* per processQueue invocation: off, wait, run
  wtimer,               \* per processQueue invocation: what is left of its wait
  wreq,                 \* per processQueue invocation: the request it awaits
  returned,             \* observation: what the step just taken returned, if any
  tries,                \* history: per pending call, its failed attempts
  sinceLastCall,        \* history: time since generateContent was last called, capped
  inserts,              \* history: number of keys added to the cache so far
  evicted,              \* history: keys deleted from the cache
  hitKeys,              \* history: keys served from the cache
  fallbackLog,          \* history: fallback-only returns, where a specification records them
  transcriptEmotions,   \* the records analyzeCompleteTranscript has collected
  result,               \* what analyzeCompleteTranscript returned, if it has
  debounceTimer,        \* the text the hook's debounce timer holds, if it is set
  effectTimer,          \* whether the hook's analysis timer is set
  lastProcessedText,    \* the hook's lastProcessedTextRef.current
  emotionHistory,       \* the hook's emotionHistory state
  emotionAnalysis       \* the hook's emotionAnalysis state

vars == <<envApiKey, envFallbackOnly, ctorApiKey, ctorFallbackOnly, requestQueue,
          isProcessingQueue, timeSinceLastRequest, requestCount, emotionCache,
          rpc, args, attempt, timer, settle, wpc, wtimer, wreq,
          returned, tries, sinceLastCall, inserts, evicted, hitKeys,
          fallbackLog,
          transcriptEmotions, result, debounceTimer, effectTimer,
          lastProcessedText, emotionHistory, emotionAnalysis>>

Calls == 1..MaxCalls
None == <<>>
NoSleep == -1
Threw == [threw |-> TRUE]

Success(reply) == [ok |-> TRUE, reply |-> reply]
Failure(message) == [ok |-> FALSE, error |-> message]
Outcomes == {Success(r) : r \in Replies} \cup {Failure(m) : m \in ErrorMessages}

InitService ==
  /\ envApiKey \in BOOLEAN
  /\ envFallbackOnly \in BOOLEAN
  /\ ctorApiKey = envApiKey
  /\ requestQueue = <<>>
  /\ isProcessingQueue = FALSE
  /\ rpc = [c \in Calls |-> "new"]
  /\ args = [c \in Calls |-> None]
  /\ attempt = [c \in Calls |-> 0]
  /\ timer = [c \in Calls |-> 0]
  /\ settle = [c \in Calls |-> None]
  /\ wpc = [c \in Calls |-> "off"]
  /\ wtimer = [c \in Calls |-> 0]
  /\ wreq = [c \in Calls |-> 0]
  /\ returned = None
  /\ tries = [c \in Calls |-> <<>>]
  /\ evicted = {}
  /\ hitKeys = {}
  /\ fallbackLog = <<>>
  /\ result = None
  /\ debounceTimer = None
  /\ effectTimer = FALSE
  /\ lastProcessedText = <<>>
  /\ emotionHistory = <<>>
  /\ emotionAnalysis = None

\* the service right after construction: lastRequestTime = 0 lies far in
\* the past of Date.now()
Init ==
  /\ InitService
  /\ timeSinceLastRequest = RATE_LIMIT_DELAY
  /\ sinceLastCall = RATE_LIMIT_DELAY
  /\ requestCount = 0
  /\ emotionCache = <<>>
  /\ inserts = 0
  /\ transcriptEmotions = <<>>
  /\ ctorFallbackOnly = None

\* the service after WarmCount live classifications of TextSure with the
\* durations 1..WarmCount, the last of them finished one tick ago
WarmCount == CACHE_LIMIT

WarmEntry(d) ==
  [key |-> CacheKey(TextSure, d),
   value |-> CacheableData(BuildEmotionData(ReplyFull, 1000, d)),
   seq |-> d]

WarmCache == [d \in 1..WarmCount |-> WarmEntry(d)]

InitWarm ==
  /\ InitService
  /\ timeSinceLastRequest = TickMs
  /\ sinceLastCall = TickMs
  /\ requestCount = WarmCount
  /\ emotionCache = WarmCache
  /\ inserts = WarmCount
  /\ transcriptEmotions = <<>>
  /\ ctorFallbackOnly = None

\* ============================================================== actions
\* the closure runs: retryWithBackoff enters its loop and calls
\* model.generateContent
StartRequest(rpcBase, c) ==
  /\ rpc' = [rpcBase EXCEPT ![c] = "calling"]
  /\ attempt' = [attempt EXCEPT ![c] = 1]
  /\ sinceLastCall' = 0

\* a loop exit that leaves the flag set
LoopExitKeepsFlag(w, q, rpcBase) ==
  /\ requestQueue' = q
  /\ isProcessingQueue' = TRUE
  /\ wpc' = [wpc EXCEPT ![w] = "off"]
  /\ wtimer' = [wtimer EXCEPT ![w] = 0]
  /\ wreq' = [wreq EXCEPT ![w] = 0]
  /\ rpc' = rpcBase
  /\ UNCHANGED <<attempt, sinceLastCall>>

\* processQueue leaves its loop
LoopExit(w, q, rpcBase) ==
  /\ requestQueue' = q
  /\ isProcessingQueue' = FALSE
  /\ wpc' = [wpc EXCEPT ![w] = "off"]
  /\ wtimer' = [wtimer EXCEPT ![w] = 0]
  /\ wreq' = [wreq EXCEPT ![w] = 0]
  /\ rpc' = rpcBase
  /\ UNCHANGED <<attempt, sinceLastCall>>

\* a queue that hands out its newest closure
ShiftNewest(q) == Len(q)

\* which queued closure requestQueue.shift() takes, and what it leaves
ShiftIndex(q) == 1
Shifted(q) == q[ShiftIndex(q)]
AfterShift(q) ==
  [i \in 1..(Len(q) - 1) |-> IF i < ShiftIndex(q) THEN q[i] ELSE q[i + 1]]

\* requestQueue.shift() and await request()
Dequeue(w, q, rpcBase, processing) ==
  IF q = <<>>
  THEN LoopExit(w, q, rpcBase)
  ELSE /\ requestQueue' = AfterShift(q)
       /\ isProcessingQueue' = processing
       /\ wpc' = [wpc EXCEPT ![w] = "run"]
       /\ wtimer' = [wtimer EXCEPT ![w] = 0]
       /\ wreq' = [wreq EXCEPT ![w] = Shifted(q)]
       /\ StartRequest(rpcBase, Shifted(q))

\* the rate-limit wait of one loop iteration; 0 when no wait is needed
WaitTime(since) ==
  IF since < RATE_LIMIT_DELAY THEN RATE_LIMIT_DELAY - since ELSE 0

\* one pass through the head of the while loop of processQueue
LoopHead(w, q, since, rpcBase, processing) ==
  IF q = <<>>
  THEN LoopExit(w, q, rpcBase)
  ELSE IF WaitTime(since) > 0
  THEN /\ requestQueue' = q
       /\ isProcessingQueue' = processing
       /\ wpc' = [wpc EXCEPT ![w] = "wait"]
       /\ wtimer' = [wtimer EXCEPT ![w] = WaitTime(since)]
       /\ rpc' = rpcBase
       /\ UNCHANGED <<wreq, attempt, sinceLastCall>>
  ELSE Dequeue(w, q, rpcBase, processing)

\* processQueue without its isProcessingQueue check
WorkerMayStartUnguarded(processing, q) == q # <<>>

\* the guard at the top of processQueue
WorkerMayStart(processing, q) == ~(processing \/ q = <<>>)

\* the first guard of analyzeTextEmotion
UseFallbackOnly == envFallbackOnly \/ ~envApiKey

\* a length check that lets a text of 9 characters through
IsShortTextOffByOne(text) == Len(Trim(text)) < MIN_TEXT_LENGTH - 1

\* text.trim().length < 10
IsShortText(text) == Len(Trim(text)) < MIN_TEXT_LENGTH

Return(c, a, record, branch) ==
  returned' = [call |-> c, text |-> a.text, timestamp |-> a.timestamp,
               duration |-> a.duration, record |-> record, branch |-> branch,
               outcome |-> settle[c], attempts |-> attempt[c],
               tries |-> tries[c]]

ReturnNow(c, a, record, branch) ==
  /\ rpc' = [rpc EXCEPT ![c] = "done"]
  /\ Return(c, a, record, branch)
  /\ UNCHANGED <<requestQueue, isProcessingQueue, wpc, wtimer, wreq, attempt,
                 sinceLastCall, args>>

\* makeRateLimitedRequest: push the closure, then processQueue()
Enqueue(c, a) ==
  LET q == Append(requestQueue, c)
      rpcQ == [rpc EXCEPT ![c] = "queued"]
  IN  /\ args' = [args EXCEPT ![c] = a]
      /\ returned' = None
      /\ IF WorkerMayStart(isProcessingQueue, q)
         THEN LoopHead(c, q, timeSinceLastRequest, rpcQ, TRUE)
         ELSE /\ requestQueue' = q
              /\ rpc' = rpcQ
              /\ UNCHANGED <<isProcessingQueue, wpc, wtimer, wreq, attempt,
                             sinceLastCall>>

\* analyzeTextEmotion up to its first await
AnalyzeTextEmotion(c, text, timestamp, speakingDuration) ==
  /\ rpc[c] = "new"
  /\ \A d \in 1..(c - 1) : rpc[d] # "new"
  /\ LET cacheKey == CacheKey(text, speakingDuration)
         a == [text |-> text, timestamp |-> timestamp,
               duration |-> speakingDuration]
     IN  IF UseFallbackOnly
         THEN /\ ReturnNow(c, a, fallbackTextAnalysis(text, timestamp,
                                                      speakingDuration), "fallback")
              /\ UNCHANGED <<hitKeys, emotionCache>>
         ELSE IF CacheHas(emotionCache, cacheKey)
         THEN /\ ReturnNow(c, a, FromCache(CacheGet(emotionCache, cacheKey),
                                           timestamp), "hit")
              /\ emotionCache' = CacheAfterHit(emotionCache, cacheKey)
              /\ hitKeys' = hitKeys \cup {cacheKey}
         ELSE IF IsShortText(text)
         THEN /\ ReturnNow(c, a, fallbackTextAnalysis(text, timestamp,
                                                      speakingDuration), "short")
              /\ UNCHANGED <<hitKeys, emotionCache>>
         ELSE /\ Enqueue(c, a)
              /\ UNCHANGED <<hitKeys, emotionCache>>
  /\ UNCHANGED <<envApiKey, envFallbackOnly, ctorApiKey, ctorFallbackOnly,
                 transcriptEmotions, result, timeSinceLastRequest,
                 requestCount, timer, settle, tries, inserts, evicted>>

\* a call of analyzeTextEmotion
Classify(c, text, timestamp, speakingDuration) ==
  /\ AnalyzeTextEmotion(c, text, timestamp, speakingDuration)
  /\ UNCHANGED <<fallbackLog, debounceTimer, effectTimer, lastProcessedText,
                 emotionHistory, emotionAnalysis>>

\* a call of analyzeTextEmotion whose return, when the first guard gave it,
\* is appended to fallbackLog
ClassifyRecorded(c, text, timestamp, speakingDuration) ==
  /\ AnalyzeTextEmotion(c, text, timestamp, speakingDuration)
  /\ UNCHANGED <<debounceTimer, effectTimer, lastProcessedText,
                 emotionHistory, emotionAnalysis>>
  /\ fallbackLog' =
       IF returned' = None THEN fallbackLog
       ELSE IF returned'.branch = "fallback"
       THEN Append(fallbackLog, [text |-> text, timestamp |-> timestamp,
                                 duration |-> speakingDuration,
                                 record |-> returned'.record])
       ELSE fallbackLog

\* the rate-limit wait of a processQueue invocation ends
RateWaitDone(w) ==
  /\ wpc[w] = "wait"
  /\ wtimer[w] = 0
  /\ Dequeue(w, requestQueue, rpc, isProcessingQueue)
  /\ returned' = None
  /\ UNCHANGED <<debounceTimer, effectTimer, lastProcessedText,
                 emotionHistory, emotionAnalysis,
                 fallbackLog, envApiKey, envFallbackOnly, ctorApiKey,
                 ctorFallbackOnly, transcriptEmotions, result, timeSinceLastRequest,
                 requestCount, emotionCache, args, timer, settle, tries, inserts,
                 evicted, hitKeys>>

\* a retry loop that takes only a quota message for throttling
ShouldRetryQuotaOnly(n, message) ==
  n # MAX_RETRIES /\ Occurrences(message, <<"q", "u", "o", "t", "a">>) > 0

\* a retry loop that gives up one attempt early
ShouldRetryOnceLess(n, message) == n # MAX_RETRIES - 1 /\ IsRateLimitError(message)

\* a retry loop that does not look at the kind of error
ShouldRetryAnyError(n, message) == n # MAX_RETRIES

\* the catch block of retryWithBackoff: sleep and go round again?
ShouldRetry(n, message) == n # MAX_RETRIES /\ IsRateLimitError(message)

\* baseDelay * Math.pow(2, attempt - 1) + Math.random() * 1000
BackoffDelay(n, jitter) == baseDelay * Pow2(n - 1) + jitter

\* a client built without a key is refused by the service
ServiceMayAnswer(outcome) == ctorApiKey \/ outcome = Failure(ErrAuth)

\* model.generateContent settles, and retryWithBackoff reacts
CallReturn(c, outcome) ==
  /\ rpc[c] = "calling"
  /\ ServiceMayAnswer(outcome)
  /\ IF ~outcome.ok /\ ShouldRetry(attempt[c], outcome.error)
     THEN \E jitter \in Jitters :
            /\ rpc' = [rpc EXCEPT ![c] = "backoff"]
            /\ timer' = [timer EXCEPT ![c] = BackoffDelay(attempt[c], jitter)]
            /\ tries' = [tries EXCEPT
                           ![c] = Append(@, [error |-> outcome.error,
                                             delay |-> BackoffDelay(attempt[c],
                                                                    jitter)])]
            /\ UNCHANGED settle
     ELSE /\ rpc' = [rpc EXCEPT ![c] = "settled"]
          /\ settle' = [settle EXCEPT ![c] = outcome]
          /\ tries' = IF outcome.ok THEN tries
                      ELSE [tries EXCEPT
                              ![c] = Append(@, [error |-> outcome.error,
                                                delay |-> NoSleep])]
          /\ UNCHANGED timer
  /\ returned' = None
  /\ UNCHANGED <<debounceTimer, effectTimer, lastProcessedText,
                 emotionHistory, emotionAnalysis,
                 fallbackLog, envApiKey, envFallbackOnly, ctorApiKey,
                 ctorFallbackOnly, transcriptEmotions, result, requestQueue,
                 isProcessingQueue, timeSinceLastRequest, requestCount,
                 emotionCache, args, attempt, wpc, wtimer, wreq, sinceLastCall,
                 inserts, evicted, hitKeys>>

\* a backoff sleep ends: the next attempt calls model.generateContent
BackoffDone(c) ==
  /\ rpc[c] = "backoff"
  /\ timer[c] = 0
  /\ rpc' = [rpc EXCEPT ![c] = "calling"]
  /\ attempt' = [attempt EXCEPT ![c] = @ + 1]
  /\ sinceLastCall' = 0
  /\ returned' = None
  /\ UNCHANGED <<debounceTimer, effectTimer, lastProcessedText,
                 emotionHistory, emotionAnalysis,
                 fallbackLog, envApiKey, envFallbackOnly, ctorApiKey,
                 ctorFallbackOnly, transcriptEmotions, result, requestQueue,
                 isProcessingQueue, timeSinceLastRequest, requestCount,
                 emotionCache, args, timer, settle, wpc, wtimer, wreq, tries,
                 inserts, evicted, hitKeys>>

\* result.match(...) finds an object and JSON.parse accepts it
ParseSucceeds(outcome) == outcome.ok /\ outcome.reply.kind = "object"

\* a catch block that lets the error escape
CatchErrorRethrow(text, timestamp, speakingDuration) == Threw

\* the catch block of analyzeTextEmotion
CatchError(text, timestamp, speakingDuration) ==
  fallbackTextAnalysis(text, timestamp, speakingDuration)

\* a catch block that caches the record it returns
CacheOnCatchStores(cache, key, record, seq) ==
  CacheTrim(CacheSet(cache, key, CacheableData(record), seq))

\* the catch block of analyzeTextEmotion has no cache write
CacheOnCatch(cache, key, record, seq) == cache

\* analyzeTextEmotion after its await: parse, build, cache, return
AnalyzeTextEmotionResume(c) ==
  /\ rpc[c] = "settled"
  /\ LET a == args[c]
         cacheKey == CacheKey(a.text, a.duration)
     IN  IF ParseSucceeds(settle[c])
         THEN LET emotionData ==
                    BuildEmotionData(settle[c].reply, a.timestamp, a.duration)
                  stored == CacheSet(emotionCache, cacheKey,
                                     CacheableData(emotionData), inserts + 1)
              IN  /\ emotionCache' = CacheTrim(stored)
                  /\ inserts' = IF CacheHas(emotionCache, cacheKey)
                                THEN inserts ELSE inserts + 1
                  /\ evicted' = IF Len(CacheTrim(stored)) < Len(stored)
                                THEN evicted \cup {stored[1].key} ELSE evicted
                  /\ Return(c, a, emotionData, "live")
         ELSE /\ Return(c, a, CatchError(a.text, a.timestamp, a.duration),
                        "caught")
              /\ emotionCache' =
                   CacheOnCatch(emotionCache, cacheKey,
                                CatchError(a.text, a.timestamp, a.duration),
                                inserts + 1)
              /\ UNCHANGED <<inserts, evicted>>
  /\ rpc' = [rpc EXCEPT ![c] = "done"]
  /\ args' = [args EXCEPT ![c] = None]
  /\ settle' = [settle EXCEPT ![c] = None]
  /\ attempt' = [attempt EXCEPT ![c] = 0]
  /\ tries' = [tries EXCEPT ![c] = <<>>]
  /\ UNCHANGED <<debounceTimer, lastProcessedText, emotionAnalysis,
                 fallbackLog,
                 envApiKey, envFallbackOnly, ctorApiKey,
                 ctorFallbackOnly, transcriptEmotions, result, requestQueue,
                 isProcessingQueue, timeSinceLastRequest, requestCount, timer,
                 wpc, wtimer, wreq, sinceLastCall, hitKeys>>

\* a caller other than the hook takes the record
CallerResume(c) ==
  /\ AnalyzeTextEmotionResume(c)
  /\ UNCHANGED <<emotionHistory, effectTimer>>

\* processQueue after await request(): stamp the time, count, loop
WorkerResume(w) ==
  /\ wpc[w] = "run"
  /\ rpc[wreq[w]] \in {"settled", "done"}
  /\ timeSinceLastRequest' = 0
  /\ requestCount' = requestCount + 1
  /\ LoopHead(w, requestQueue, 0, rpc, isProcessingQueue)
  /\ returned' = None
  /\ UNCHANGED <<debounceTimer, effectTimer, lastProcessedText,
                 emotionHistory, emotionAnalysis,
                 fallbackLog, envApiKey, envFallbackOnly, ctorApiKey,
                 ctorFallbackOnly, transcriptEmotions, result, emotionCache, args,
                 timer, settle, tries, inserts, evicted, hitKeys>>

\* a continuation is ready to run: no time passes before it has run
ContinuationPending ==
  \/ \E c \in Calls : rpc[c] = "settled"
  \/ \E w \in Calls : wpc[w] = "run" /\ rpc[wreq[w]] \in {"settled", "done"}

\* a timer is due: it fires before the clock moves on
TimerDue ==
  \/ \E c \in Calls : rpc[c] = "backoff" /\ timer[c] = 0
  \/ \E w \in Calls : wpc[w] = "wait" /\ wtimer[w] = 0

\* the passage of time changes some elapsed or remaining time
TimeMatters ==
  \/ \E c \in Calls : rpc[c] = "backoff"
  \/ \E w \in Calls : wpc[w] = "wait"
  \/ timeSinceLastRequest < RATE_LIMIT_DELAY
  \/ sinceLastCall < RATE_LIMIT_DELAY

Tick ==
  /\ ~ContinuationPending
  /\ ~TimerDue
  /\ TimeMatters
  /\ timeSinceLastRequest' = Min(timeSinceLastRequest + TickMs, RATE_LIMIT_DELAY)
  /\ sinceLastCall' = Min(sinceLastCall + TickMs, RATE_LIMIT_DELAY)
  /\ timer' = [c \in Calls |-> Max(timer[c] - TickMs, 0)]
  /\ wtimer' = [w \in Calls |-> Max(wtimer[w] - TickMs, 0)]
  /\ returned' = None
  /\ UNCHANGED <<debounceTimer, effectTimer, lastProcessedText,
                 emotionHistory, emotionAnalysis,
                 fallbackLog, envApiKey, envFallbackOnly, ctorApiKey,
                 ctorFallbackOnly, transcriptEmotions, result, requestQueue,
                 isProcessingQueue, requestCount, emotionCache,
                 rpc, args, attempt, settle, wpc, wreq, tries,
                 inserts, evicted, hitKeys>>

\* the environment of the process changes after construction
SetEnv(key, flag) ==
  /\ <<key, flag>> # <<envApiKey, envFallbackOnly>>
  /\ \E c \in Calls : rpc[c] = "new"
  /\ envApiKey' = key
  /\ envFallbackOnly' = flag
  /\ returned' = None
  /\ UNCHANGED <<debounceTimer, effectTimer, lastProcessedText,
                 emotionHistory, emotionAnalysis,
                 fallbackLog, ctorApiKey, ctorFallbackOnly,
                 transcriptEmotions, result, requestQueue,
                 isProcessingQueue,
                 timeSinceLastRequest, requestCount, emotionCache, rpc, args,
                 attempt, timer, settle, wpc, wtimer, wreq, tries,
                 sinceLastCall, inserts, evicted, hitKeys>>

\* no analyzeTextEmotion call is under way
NoPendingCall == \A c \in Calls : rpc[c] \in {"new", "done"}

\* one round of the loop of analyzeCompleteTranscript, which awaits each
\* analyzeTextEmotion before it makes the next
ClassifyInTurn(c, text, timestamp, speakingDuration) ==
  /\ NoPendingCall
  /\ Classify(c, text, timestamp, speakingDuration)

\* what processStreamingMessage returns when it does not classify
Null == [null |-> TRUE]

\* a check on the length of the message as given
StreamSkipsUntrimmed(message, isPartial) ==
  isPartial \/ Len(message) < MIN_TEXT_LENGTH

\* isPartial || message.trim().length < 10
StreamSkips(message, isPartial) ==
  isPartial \/ Len(Trim(message)) < MIN_TEXT_LENGTH

\* processStreamingMessage: return null, or analyzeTextEmotion with the
\* default speakingDuration
ProcessStreamingMessage(c, message, timestamp, isPartial) ==
  IF StreamSkips(message, isPartial)
  THEN /\ rpc[c] = "new"
       /\ \A d \in 1..(c - 1) : rpc[d] # "new"
       /\ rpc' = [rpc EXCEPT ![c] = "done"]
       /\ returned' = [call |-> c, text |-> message, timestamp |-> timestamp,
                       duration |-> 0, record |-> Null, branch |-> "skipped",
                       outcome |-> None, attempts |-> 0, tries |-> <<>>]
       /\ UNCHANGED <<debounceTimer, effectTimer, lastProcessedText,
                 emotionHistory, emotionAnalysis,
                 fallbackLog, envApiKey, envFallbackOnly, ctorApiKey,
                      ctorFallbackOnly, transcriptEmotions, result,
                      requestQueue, isProcessingQueue, timeSinceLastRequest,
                      requestCount, emotionCache, args, attempt, timer, settle,
                      wpc, wtimer, wreq, tries, sinceLastCall, inserts, evicted,
                      hitKeys>>
  ELSE Classify(c, message, timestamp, 0)

\* ------------------------------------------------------ session summary
MaxRecords == 5        \* records in one summarized session

RECURSIVE SumConfidence(_, _)
SumConfidence(emotions, i) ==
  IF i > Len(emotions) THEN 0
  ELSE emotions[i].confidence + SumConfidence(emotions, i + 1)

\* e.additionalMetrics?.stress_level || 0
RECURSIVE SumStress(_, _)
SumStress(emotions, i) ==
  IF i > Len(emotions) THEN 0
  ELSE emotions[i].additionalMetrics.stress_level + SumStress(emotions, i + 1)

EmotionCount(emotions, label) ==
  Cardinality({i \in 1..Len(emotions) : emotions[i].emotion = label})

\* the keys of emotionCounts, in the order the loop inserted them
FirstSeen(emotions, label) ==
  CHOOSE i \in 1..Len(emotions) :
    /\ emotions[i].emotion = label
    /\ \A j \in 1..(i - 1) : emotions[j].emotion # label

UniqueEmotions(emotions) == {emotions[i].emotion : i \in 1..Len(emotions)}

\* a sort that puts the label inserted last in front of its equals
MostFrequentEmotionLastSeen(emotions) ==
  CHOOSE label \in UniqueEmotions(emotions) :
    \A other \in UniqueEmotions(emotions) \ {label} :
      \/ EmotionCount(emotions, label) > EmotionCount(emotions, other)
      \/ /\ EmotionCount(emotions, label) = EmotionCount(emotions, other)
         /\ FirstSeen(emotions, label) > FirstSeen(emotions, other)

\* Object.entries(emotionCounts).sort(([,a], [,b]) => b - a)[0][0]: the sort
\* is stable, so among the labels of the highest count the one inserted
\* first comes out
MostFrequentEmotion(emotions) ==
  CHOOSE label \in UniqueEmotions(emotions) :
    \A other \in UniqueEmotions(emotions) \ {label} :
      \/ EmotionCount(emotions, label) > EmotionCount(emotions, other)
      \/ /\ EmotionCount(emotions, label) = EmotionCount(emotions, other)
         /\ FirstSeen(emotions, label) < FirstSeen(emotions, other)

\* a stability that counts the changes of label rather than the labels
EmotionalStabilityOfChanges(emotions) ==
  LET n == Len(emotions)
      unique == Cardinality(UniqueEmotions(emotions))
  IN  (FloatScale * (n - unique + 1)) \div n

\* Math.max(0, 1 - uniqueEmotions / emotions.length), in thousandths
EmotionalStability(emotions) ==
  LET n == Len(emotions)
      unique == Cardinality(UniqueEmotions(emotions))
  IN  IF unique >= n THEN 0 ELSE (FloatScale * (n - unique)) \div n

\* a volatility test that also fires at a stability of exactly 0.5
StressIndicatorsAtHalf(emotions) ==
  LET n == Len(emotions)
      unique == Cardinality(UniqueEmotions(emotions))
      stressedCount ==
        Cardinality({i \in 1..n : emotions[i].emotion \in {"stressed", "nervous"}})
      frequent == IF 10 * stressedCount > 3 * n
                  THEN <<"High frequency of stressed/nervous responses">> ELSE <<>>
      high == IF SumStress(emotions, 1) > 600 * n
              THEN <<"Elevated stress levels detected">> ELSE <<>>
      inconsistent == IF 2 * (n - unique) <= n
                      THEN <<"High emotional volatility">> ELSE <<>>
  IN  frequent \o high \o inconsistent

\* the three tests are made on the exact quotients:
\*   stressedCount > length * 0.3, averageStress > 0.6, stability < 0.5
StressIndicators(emotions) ==
  LET n == Len(emotions)
      unique == Cardinality(UniqueEmotions(emotions))
      stressedCount ==
        Cardinality({i \in 1..n : emotions[i].emotion \in {"stressed", "nervous"}})
      frequent == IF 10 * stressedCount > 3 * n
                  THEN <<"High frequency of stressed/nervous responses">> ELSE <<>>
      high == IF SumStress(emotions, 1) > 600 * n
              THEN <<"Elevated stress levels detected">> ELSE <<>>
      inconsistent == IF 2 * (n - unique) < n
                      THEN <<"High emotional volatility">> ELSE <<>>
  IN  frequent \o high \o inconsistent

\* a summary that takes a session without records for a settled one
EmptySummaryStable ==
  [averageConfidence |-> 0, mostFrequentEmotion |-> "neutral",
   emotionalStability |-> FloatScale, stressIndicators |-> <<>>]

EmptySummary ==
  [averageConfidence |-> 0, mostFrequentEmotion |-> "neutral",
   emotionalStability |-> 0, stressIndicators |-> <<>>]

calculateEmotionSummary(emotions) ==
  IF Len(emotions) = 0 THEN EmptySummary
  ELSE [averageConfidence |-> SumConfidence(emotions, 1) \div Len(emotions),
        mostFrequentEmotion |-> MostFrequentEmotion(emotions),
        emotionalStability |-> EmotionalStability(emotions),
        stressIndicators |-> StressIndicators(emotions)]

\* a list of positive labels that takes neutral for one of them
PositiveEmotionsWithNeutral ==
  {"happy", "confident", "excited", "calm", "neutral"}

PositiveEmotions == {"happy", "confident", "excited", "calm"}

PositiveCount(emotions, from, to) ==
  Cardinality({i \in from..to : emotions[i].emotion \in PositiveEmotions})

\* a split that gives the extra record of an odd-length list to the first
\* half
calculateEmotionalTrendCeil(emotions) ==
  IF Len(emotions) < 3 THEN "stable"
  ELSE LET n == Len(emotions)
           half == (n + 1) \div 2
           firstLen == half
           secondLen == n - half
           cross == PositiveCount(emotions, half + 1, n) * firstLen
                    - PositiveCount(emotions, 1, half) * secondLen
       IN  IF 10 * cross > firstLen * secondLen THEN "improving"
           ELSE IF 10 * cross < -(firstLen * secondLen) THEN "declining"
           ELSE "stable"

\* emotions.slice(0, Math.floor(emotions.length / 2))
firstHalf(emotions) == SubSeq(emotions, 1, Len(emotions) \div 2)

\* emotions.slice(Math.floor(emotions.length / 2))
secondHalf(emotions) ==
  SubSeq(emotions, Len(emotions) \div 2 + 1, Len(emotions))

\* improvement = secondHalfPositive - firstHalfPositive, compared with 0.1
\* and -0.1 on the exact quotients
calculateEmotionalTrend(emotions) ==
  IF Len(emotions) < 3 THEN "stable"
  ELSE LET first == firstHalf(emotions)
           second == secondHalf(emotions)
           cross == PositiveCount(second, 1, Len(second)) * Len(first)
                    - PositiveCount(first, 1, Len(first)) * Len(second)
       IN  IF 10 * cross > Len(first) * Len(second) THEN "improving"
           ELSE IF 10 * cross < -(Len(first) * Len(second)) THEN "declining"
           ELSE "stable"

\* what analyzeCompleteTranscript does once its loop has collected the
\* records of the user messages
AnalyzeCompleteTranscript ==
  /\ result = None
  /\ result' =
       [emotions |-> transcriptEmotions,
        dominantEmotion |->
          calculateEmotionSummary(transcriptEmotions).mostFrequentEmotion,
        emotionalTrend |-> calculateEmotionalTrend(transcriptEmotions),
        summary |-> calculateEmotionSummary(transcriptEmotions)]
  /\ returned' = None
  /\ UNCHANGED <<envApiKey, envFallbackOnly, ctorApiKey, ctorFallbackOnly,
                 transcriptEmotions, requestQueue, isProcessingQueue,
                 timeSinceLastRequest, requestCount, emotionCache, rpc, args,
                 attempt, timer, settle, wpc, wtimer, wreq, tries,
                 sinceLastCall, inserts, evicted, hitKeys, fallbackLog,
                 debounceTimer, effectTimer, lastProcessedText,
                 emotionHistory, emotionAnalysis>>

\* ------------------------------------------ hooks/useEmotionDetection.ts
\* enableRealTime = true
realTimeEnabled == TRUE

\* the speaking duration the hook passes to analyzeTextEmotion
HookDuration == 2000

\* the length below which addEmotionReading drops a text
HookMinLength == 10

\* Date.now() when call c is made: later calls read a later clock
CallTimestamp(c) == 1000 * c

\* the rest of the state, which the hook's own steps leave alone
HookLeavesService ==
  UNCHANGED <<envApiKey, envFallbackOnly, ctorApiKey, ctorFallbackOnly,
              transcriptEmotions, result, requestQueue, isProcessingQueue,
              timeSinceLastRequest, requestCount, emotionCache, rpc, args,
              attempt, timer, settle, wpc, wtimer, wreq, tries,
              sinceLastCall, inserts, evicted, hitKeys, fallbackLog>>

\* addEmotionReading: drop a short or repeated text, else set the debounce
\* timer anew. The timer's delay is not counted: a reply of the external
\* service may take any time, so the timer may fire anywhere among the
\* service's steps.
AddEmotionReading(text) ==
  /\ \E c \in Calls : rpc[c] = "new"
  /\ ~(~realTimeEnabled \/ Len(Trim(text)) < HookMinLength)
  /\ ToLowerCase(Trim(text)) # lastProcessedText
  /\ debounceTimer' = text
  /\ returned' = None
  /\ UNCHANGED <<effectTimer, lastProcessedText, emotionHistory,
                 emotionAnalysis>>
  /\ HookLeavesService

\* a new list that puts the record in front
setEmotionHistoryInFront(prev, emotionData) == <<emotionData>> \o prev

\* setEmotionHistory(prev => [...prev, emotionData])
setEmotionHistory(prev, emotionData) == Append(prev, emotionData)

\* the debounce timer fires: the callback as far as its await, and past it
\* where analyzeTextEmotion returns at once. A change of emotionHistory
\* sets the timer of the auto-update effect.
DebounceFires(c) ==
  /\ debounceTimer # None
  /\ lastProcessedText' = ToLowerCase(Trim(debounceTimer))
  /\ AnalyzeTextEmotion(c, debounceTimer, CallTimestamp(c), HookDuration)
  /\ debounceTimer' = None
  /\ emotionHistory' =
       IF returned' = None THEN emotionHistory
       ELSE setEmotionHistory(emotionHistory, returned'.record)
  /\ effectTimer' = IF returned' = None THEN effectTimer ELSE TRUE
  /\ UNCHANGED <<fallbackLog, emotionAnalysis>>

\* the callback after its await: the record is put on emotionHistory
HookResume(c) ==
  /\ AnalyzeTextEmotionResume(c)
  /\ emotionHistory' = setEmotionHistory(emotionHistory, returned'.record)
  /\ effectTimer' = TRUE

\* `Emotion reading ${index + 1}`
IndexChars == <<"1", "2", "3", "4", "5", "6", "7", "8", "9">>
MockText(index) ==
  <<"E", "m", "o", "t", "i", "o", "n", " ", "r", "e", "a", "d", "i", "n",
    "g", " ">> \o <<IndexChars[index]>>

\* the messages the auto-update effect makes of emotionHistory
mockMessages ==
  [index \in 1..Len(emotionHistory) |->
     [role |-> "user",
      message |-> MockText(index),
      time |-> emotionHistory[index].timestamp]]

\* analyzeCompleteTranscript of a service in fallback-only mode, where each
\* analyzeTextEmotion returns at once: every message here is a user's and
\* has a text, a time, and no duration
analyzeCompleteTranscriptFallbackOnly(messages) ==
  LET emotions ==
        [i \in 1..Len(messages) |->
           fallbackTextAnalysis(messages[i].message, messages[i].time, 0)]
      summary == calculateEmotionSummary(emotions)
  IN  [emotions |-> emotions,
       dominantEmotion |-> summary.mostFrequentEmotion,
       emotionalTrend |-> calculateEmotionalTrend(emotions),
       summary |-> summary]

\* the timer of the auto-update effect fires while the service is in
\* fallback-only mode
EffectTimerFires ==
  /\ effectTimer
  /\ Len(emotionHistory) > 0
  /\ UseFallbackOnly
  /\ emotionAnalysis' = analyzeCompleteTranscriptFallbackOnly(mockMessages)
  /\ effectTimer' = FALSE
  /\ returned' = None
  /\ UNCHANGED <<debounceTimer, lastProcessedText, emotionHistory>>
  /\ HookLeavesService

\* ------------------------------------------------------ specifications
\* Concurrent callers (the hook, the route): any interleaving of calls.
LiveText == {TextSure, TextShort}
KeyDurations == {0}
LiveOutcomes == {Success(ReplyFull), Failure(Err429), Failure(ErrAuth)}

Next ==
  \/ \E c \in Calls, text \in LiveText, speakingDuration \in KeyDurations :
       Classify(c, text, CallTimestamp(c), speakingDuration)
  \/ \E w \in Calls : RateWaitDone(w)
  \/ \E c \in Calls, outcome \in LiveOutcomes : CallReturn(c, outcome)
  \/ \E c \in Calls : BackoffDone(c)
  \/ \E c \in Calls : CallerResume(c)
  \/ \E w \in Calls : WorkerResume(w)
  \/ Tick
  \/ \E key \in BOOLEAN, flag \in BOOLEAN : SetEnv(key, flag)

Spec == Init /\ [][Next]_vars

\* the step CallerResume(c) as it shows in rpc: the only step that takes a
\* call from settled to done
CallerResumes(c) == rpc[c] = "settled" /\ rpc' = [rpc EXCEPT ![c] = "done"]

\* The same callers under the scheduling the event loop gives: a timer that
\* is due fires, a continuation that is ready runs, the clock moves on,
\* and every call to the external service is answered in the end.
Fairness ==
  /\ \A w \in Calls : WF_vars(RateWaitDone(w))
  /\ \A c \in Calls : WF_vars(\E outcome \in LiveOutcomes : CallReturn(c, outcome))
  /\ \A c \in Calls : WF_vars(BackoffDone(c))
  /\ \A c \in Calls : WF_rpc(CallerResumes(c))
  /\ \A w \in Calls : WF_vars(WorkerResume(w))
  /\ WF_vars(Tick)

SpecFair == Init /\ [][Next]_vars /\ Fairness

\* A sequential caller (analyzeCompleteTranscript, the test script): every
\* text, timestamp, duration, reply and error.
NextInTurn ==
  \/ \E c \in Calls, text \in LiveText, timestamp \in Timestamps,
        speakingDuration \in KeyDurations :
       ClassifyInTurn(c, text, timestamp, speakingDuration)
  \/ \E w \in Calls : RateWaitDone(w)
  \/ \E c \in Calls, outcome \in Outcomes : CallReturn(c, outcome)
  \/ \E c \in Calls : BackoffDone(c)
  \/ \E c \in Calls : CallerResume(c)
  \/ \E w \in Calls : WorkerResume(w)
  \/ Tick
  \/ \E key \in BOOLEAN, flag \in BOOLEAN : SetEnv(key, flag)

SpecInTurn == Init /\ [][NextInTurn]_vars

\* Streaming callers (the emotion route): partial and final transcripts,
\* each with its own timestamp.
TextPadded == <<" ", "u", "h", ",", " ", "h", "a", "r", "d", "!", " ">>

StreamEvents ==
  {[message |-> TextSure, timestamp |-> 1000, isPartial |-> FALSE],
   [message |-> TextSure, timestamp |-> 1500, isPartial |-> TRUE],
   [message |-> TextShort, timestamp |-> 2000, isPartial |-> FALSE],
   [message |-> TextPadded, timestamp |-> 3000, isPartial |-> FALSE],
   [message |-> TextPadded, timestamp |-> 3500, isPartial |-> TRUE]}

NextStream ==
  \/ \E c \in Calls, e \in StreamEvents :
       ProcessStreamingMessage(c, e.message, e.timestamp, e.isPartial)
  \/ \E w \in Calls : RateWaitDone(w)
  \/ \E c \in Calls, outcome \in LiveOutcomes : CallReturn(c, outcome)
  \/ \E c \in Calls : BackoffDone(c)
  \/ \E c \in Calls : CallerResume(c)
  \/ \E w \in Calls : WorkerResume(w)
  \/ Tick
  \/ \E key \in BOOLEAN, flag \in BOOLEAN : SetEnv(key, flag)

SpecStream == Init /\ [][NextStream]_vars

\* Callers of a service that stays in fallback-only mode: the fallback
\* classifier on its own, over FallbackTexts.
InitFallbackOnly == Init /\ UseFallbackOnly

NextFallbackOnly ==
  \/ \E c \in Calls, text \in FallbackTexts, timestamp \in Timestamps,
        speakingDuration \in Durations :
       Classify(c, text, timestamp, speakingDuration)
  \/ \E key \in BOOLEAN, flag \in BOOLEAN :
       (flag \/ ~key) /\ SetEnv(key, flag)

SpecFallbackOnly == InitFallbackOnly /\ [][NextFallbackOnly]_vars

\* ---------------------------------------------------- the test script
\* testPhrases of scripts/test-emotion-detection.ts
testPhrases == <<
  [text |->
     <<"I", "'", "m", " ", "a", "b", "s", "o", "l", "u", "t", "e", "l", "y",
       " ", "c", "o", "n", "f", "i", "d", "e", "n", "t", " ", "a", "b", "o",
       "u", "t", " ", "t", "h", "i", "s", " ", "a", "l", "g", "o", "r", "i",
       "t", "h", "m", ".", " ", "I", "'", "v", "e", " ", "i", "m", "p", "l",
       "e", "m", "e", "n", "t", "e", "d", " ", "b", "i", "n", "a", "r", "y",
       " ", "s", "e", "a", "r", "c", "h", " ", "m", "a", "n", "y", " ", "t",
       "i", "m", "e", "s", " ", "b", "e", "f", "o", "r", "e", ".">>,
   expectedEmotion |-> "confident"],
  [text |->
     <<"U", "m", ",", " ", "I", "'", "m", " ", "n", "o", "t", " ", "r", "e",
       "a", "l", "l", "y", " ", "s", "u", "r", "e", " ", "a", "b", "o", "u",
       "t", " ", "t", "h", "i", "s", ".", ".", ".", " ", "m", "a", "y", "b",
       "e", " ", "I", " ", "c", "o", "u", "l", "d", " ", "t", "r", "y", " ",
       "a", " ", "d", "i", "f", "f", "e", "r", "e", "n", "t", " ", "a", "p",
       "p", "r", "o", "a", "c", "h", "?">>,
   expectedEmotion |-> "nervous"],
  [text |->
     <<"T", "h", "i", "s", " ", "i", "s", " ", "r", "e", "a", "l", "l", "y",
       " ", "c", "h", "a", "l", "l", "e", "n", "g", "i", "n", "g", " ", "a",
       "n", "d", " ", "I", "'", "m", " ", "f", "e", "e", "l", "i", "n", "g",
       " ", "o", "v", "e", "r", "w", "h", "e", "l", "m", "e", "d", " ", "b",
       "y", " ", "t", "h", "e", " ", "c", "o", "m", "p", "l", "e", "x", "i",
       "t", "y", ".">>,
   expectedEmotion |-> "stressed"],
  [text |->
     <<"W", "o", "w", ",", " ", "t", "h", "i", "s", " ", "i", "s", " ", "a",
       "n", " ", "a", "m", "a", "z", "i", "n", "g", " ", "p", "r", "o", "b",
       "l", "e", "m", "!", " ", "I", "'", "m", " ", "e", "x", "c", "i", "t",
       "e", "d", " ", "t", "o", " ", "s", "o", "l", "v", "e", " ", "i", "t",
       " ", "s", "t", "e", "p", " ", "b", "y", " ", "s", "t", "e", "p", ".">>,
   expectedEmotion |-> "excited"],
  [text |->
     <<"I", " ", "t", "h", "i", "n", "k", " ", "t", "h", "e", " ", "s", "o",
       "l", "u", "t", "i", "o", "n", " ", "i", "s", " ", "w", "o", "r", "k",
       "i", "n", "g", " ", "c", "o", "r", "r", "e", "c", "t", "l", "y", " ",
       "a", "n", "d", " ", "I", "'", "m", " ", "p", "l", "e", "a", "s", "e",
       "d", " ", "w", "i", "t", "h", " ", "t", "h", "e", " ", "r", "e", "s",
       "u", "l", "t", ".">>,
   expectedEmotion |-> "happy"],
  [text |->
     <<"U", "n", "f", "o", "r", "t", "u", "n", "a", "t", "e", "l", "y", ",",
       " ", "m", "y", " ", "a", "p", "p", "r", "o", "a", "c", "h", " ", "d",
       "i", "d", "n", "'", "t", " ", "w", "o", "r", "k", " ", "a", "s", " ",
       "e", "x", "p", "e", "c", "t", "e", "d", " ", "a", "n", "d", " ", "I",
       "'", "m", " ", "d", "i", "s", "a", "p", "p", "o", "i", "n", "t", "e",
       "d", ".">>,
   expectedEmotion |-> "disappointed"],
  [text |->
     <<"T", "h", "e", " ", "a", "l", "g", "o", "r", "i", "t", "h", "m", " ",
       "i", "s", " ", "r", "u", "n", "n", "i", "n", "g", " ", "f", "i", "n",
       "e", " ", "a", "n", "d", " ", "e", "v", "e", "r", "y", "t", "h", "i",
       "n", "g", " ", "l", "o", "o", "k", "s", " ", "s", "t", "a", "b", "l",
       "e", ".">>,
   expectedEmotion |-> "calm"],
  [text |->
     <<"I", "'", "m", " ", "h", "a", "v", "i", "n", "g", " ", "t", "r", "o",
       "u", "b", "l", "e", " ", "w", "i", "t", "h", " ", "t", "h", "i", "s",
       " ", "p", "a", "r", "t", ".", ".", ".", " ", "m", "a", "y", "b", "e",
       ".", ".", ".", " ", "I", " ", "g", "u", "e", "s", "s", " ", "I", " ",
       "c", "o", "u", "l", "d", " ", "t", "r", "y", " ", "a", "n", "o", "t",
       "h", "e", "r", " ", "w", "a", "y", "?">>,
   expectedEmotion |-> "uncertain"]>>

\* Date.now() + (i * 1000) for the loop index i = 0, 1, ..., counted from
\* the start of the script
PhraseTimestamp(i) == (i - 1) * 1000

\* 3 second speaking duration
PhraseDuration == 3000

\* The test script against a service that stays in fallback-only mode: it
\* classifies the phrases one after the other.
NextTestScript ==
  \/ \E c \in Calls, i \in 1..Len(testPhrases) :
       Classify(c, testPhrases[i].text, PhraseTimestamp(i), PhraseDuration)
  \/ \E key \in BOOLEAN, flag \in BOOLEAN :
       (flag \/ ~key) /\ SetEnv(key, flag)

SpecTestScript == InitFallbackOnly /\ [][NextTestScript]_vars

\* Concurrent callers whose fallback-only returns are recorded, with the
\* environment switching the service between its modes.
NextRecorded ==
  \/ \E c \in Calls, text \in LiveText, speakingDuration \in KeyDurations :
       ClassifyRecorded(c, text, CallTimestamp(c), speakingDuration)
  \/ \E w \in Calls : RateWaitDone(w)
  \/ \E c \in Calls, outcome \in LiveOutcomes : CallReturn(c, outcome)
  \/ \E c \in Calls : BackoffDone(c)
  \/ \E c \in Calls : CallerResume(c)
  \/ \E w \in Calls : WorkerResume(w)
  \/ Tick
  \/ \E key \in BOOLEAN, flag \in BOOLEAN : SetEnv(key, flag)

SpecRecorded == Init /\ [][NextRecorded]_vars

\* Concurrent callers of a service whose constructor's reading of the
\* fallback-only flag (line 64) is kept for comparison.
InitConstructed ==
  /\ InitService
  /\ timeSinceLastRequest = RATE_LIMIT_DELAY
  /\ sinceLastCall = RATE_LIMIT_DELAY
  /\ requestCount = 0
  /\ emotionCache = <<>>
  /\ inserts = 0
  /\ transcriptEmotions = <<>>
  /\ ctorFallbackOnly = envFallbackOnly

SpecConstructed == InitConstructed /\ [][Next]_vars

\* Concurrent callers of a service whose cache is full; the key comes and
\* goes in the environment, which switches between the two modes.
WarmDurations == {0, 1, CACHE_LIMIT + 1}
WarmOutcomes == {Success(ReplyEmpty), Failure(Err429)}

NextWarm ==
  \/ \E c \in Calls, speakingDuration \in WarmDurations :
       Classify(c, TextSureSpaced, CallTimestamp(c), speakingDuration)
  \/ \E w \in Calls : RateWaitDone(w)
  \/ \E c \in Calls, outcome \in WarmOutcomes : CallReturn(c, outcome)
  \/ \E c \in Calls : BackoffDone(c)
  \/ \E c \in Calls : CallerResume(c)
  \/ \E w \in Calls : WorkerResume(w)
  \/ Tick
  \/ \E key \in BOOLEAN : SetEnv(key, FALSE)

SpecWarm == InitWarm /\ [][NextWarm]_vars

\* The hook over a service whose cache holds the record of an earlier
\* session: readings are added, the debounce timer fires, and the service
\* runs in any interleaving, while the credential comes and goes in the
\* environment. The auto-update effect, which puts nothing on
\* emotionHistory, is left to SpecHookFallbackOnly.
HookTexts == {TextSure, TextFine, TextGreat, TextShort}

HookEntry ==
  [key |-> CacheKey(TextSure, HookDuration),
   value |-> CacheableData(BuildEmotionData(ReplyTense, 1000, HookDuration)),
   seq |-> 1]

HookOutcomes == {Success(ReplyFull), Failure(Err429)}

InitHook ==
  /\ InitService
  /\ timeSinceLastRequest = RATE_LIMIT_DELAY
  /\ sinceLastCall = RATE_LIMIT_DELAY
  /\ requestCount = 1
  /\ emotionCache = <<HookEntry>>
  /\ inserts = 1
  /\ transcriptEmotions = <<>>
  /\ ctorFallbackOnly = None
  /\ ~envFallbackOnly

NextHook ==
  \/ \E text \in HookTexts : AddEmotionReading(text)
  \/ \E c \in Calls : DebounceFires(c)
  \/ \E w \in Calls : RateWaitDone(w)
  \/ \E c \in Calls, outcome \in HookOutcomes : CallReturn(c, outcome)
  \/ \E c \in Calls : BackoffDone(c)
  \/ \E c \in Calls : HookResume(c)
  \/ \E w \in Calls : WorkerResume(w)
  \/ Tick
  \/ \E key \in BOOLEAN : SetEnv(key, FALSE)

SpecHook == InitHook /\ [][NextHook]_vars

\* The hook over a service that stays in fallback-only mode: every reading
\* is answered at once, and the auto-update effect recomputes the analysis.
InitHookFallbackOnly == InitHook /\ UseFallbackOnly

NextHookFallbackOnly ==
  \/ \E text \in FallbackTexts : AddEmotionReading(text)
  \/ \E c \in Calls : DebounceFires(c)
  \/ EffectTimerFires

SpecHookFallbackOnly == InitHookFallbackOnly /\ [][NextHookFallbackOnly]_vars

\* A transcript whose user messages have been classified: the records are
\* ones the two builders produce.
SessionRecords ==
  {fallbackTextAnalysis(TextSure, 1000, 0),
   fallbackTextAnalysis(TextShort, 2000, 0),
   fallbackTextAnalysis(TextNoKeyword, 3000, 0),
   BuildEmotionData(ReplyFull, 4000, 0),
   BuildEmotionData(ReplyTense, 5000, 0)}

RecordLists ==
  UNION {[1..n -> SessionRecords] : n \in 0..MaxRecords}

InitSummary ==
  /\ InitService
  /\ timeSinceLastRequest = RATE_LIMIT_DELAY
  /\ sinceLastCall = RATE_LIMIT_DELAY
  /\ requestCount = 0
  /\ emotionCache = <<>>
  /\ inserts = 0
  /\ transcriptEmotions \in RecordLists
  /\ ctorFallbackOnly = None

NextSummary == AnalyzeCompleteTranscript

SpecSummary == InitSummary /\ [][NextSummary]_vars

\* =============================================================== claims
InUnit(x) == 0 <= x /\ x <= FloatScale

FallbackOf(r) == fallbackTextAnalysis(r.text, r.timestamp, r.duration)

\* the live path of the returned call ended in an error or in a reply that
\* is not a JSON object
LiveFailed(r) ==
  IF r.outcome = None THEN FALSE
  ELSE IF r.outcome.ok THEN r.outcome.reply.kind # "object"
  ELSE TRUE

\* C1: analyzeTextEmotion never throws, and when its live path failed (an
\* error after the last attempt, or a reply that cannot be parsed) it
\* returns the fallback record of the same text, timestamp and duration.
C1_NeverThrows ==
  returned # None =>
    /\ returned.record # Threw
    /\ LiveFailed(returned) => returned.record = FallbackOf(returned)

C1_Witness ==
  /\ returned # None
  /\ returned.outcome = Success(ReplyNotJson)
  /\ returned.record = FallbackOf(returned)

\* C2: confidence, stress_level, energy_level and voice_stability of every
\* returned record lie in [0,1].
C2_FloatsInUnitInterval ==
  returned # None =>
    /\ InUnit(returned.record.confidence)
    /\ InUnit(returned.record.additionalMetrics.stress_level)
    /\ InUnit(returned.record.additionalMetrics.energy_level)
    /\ InUnit(returned.record.additionalMetrics.voice_stability)

\* C3: the label of every returned record is one of the 10 categories.
C3_LabelInCategories ==
  returned # None => returned.record.emotion \in EmotionLabel

\* C4: at most one request is between its dequeue and the end of its last
\* attempt, it is the one the worker awaits, and at most one processQueue
\* loop is active.
Executing == {c \in Calls : rpc[c] \in {"calling", "backoff"}}
ActiveWorkers == {w \in Calls : wpc[w] # "off"}

C4_OneRequestAtATime ==
  /\ Cardinality(Executing) <= 1
  /\ Cardinality(ActiveWorkers) <= 1
  /\ \A c \in Executing : \E w \in Calls : wpc[w] = "run" /\ wreq[w] = c

C4_Witness ==
  \E c \in Calls, d \in Calls :
    /\ rpc[c] = "backoff"
    /\ rpc[d] = "queued"
    /\ isProcessingQueue

\* C5: calls are numbered in the order they are made, so a queued request
\* with a smaller number was queued earlier.  While a request is started
\* (calling, sleeping, or just settled), no request queued before it is
\* still queued or executing.
Started(c) == rpc[c] \in {"calling", "backoff", "settled"}

C5_ServedInEnqueueOrder ==
  \A a \in Calls, b \in Calls :
    (a < b /\ Started(b)) => rpc[a] \notin {"queued", "calling", "backoff"}

C5_Witness ==
  /\ rpc[1] = "done"
  /\ rpc[2] = "calling"
  /\ requestCount = WarmCount + 1
  /\ requestQueue = <<>>

\* C6: a call to the external service starts only when at least
\* RATE_LIMIT_DELAY has passed since the start of the call before it.
CallStarts == \E c \in Calls : attempt'[c] = attempt[c] + 1

C6_MinimumSpacing ==
  [][CallStarts => sinceLastCall >= RATE_LIMIT_DELAY]_vars

\* C7: when every attempt of a request failed as throttled, there were
\* exactly 3 attempts, the first two followed by sleeps of 2000 and 4000 ms
\* plus a jitter below 1000 ms, the third by none, and the fallback record
\* is returned.
AllThrottled(r) ==
  /\ r.outcome # None
  /\ ~r.outcome.ok
  /\ \A i \in 1..Len(r.tries) : IsRateLimitError(r.tries[i].error)

C7_ThreeThrottledAttempts ==
  (returned # None /\ AllThrottled(returned)) =>
    /\ returned.attempts = 3
    /\ Len(returned.tries) = 3
    /\ returned.tries[1].delay - 2000 \in 0..999
    /\ returned.tries[2].delay - 4000 \in 0..999
    /\ returned.tries[2].delay >= returned.tries[1].delay
    /\ returned.tries[3].delay = NoSleep
    /\ returned.record = FallbackOf(returned)

C7_Witness ==
  /\ returned # None
  /\ AllThrottled(returned)
  /\ returned.attempts = 3
  /\ returned.tries[1].delay = 2999
  /\ returned.tries[2].delay = 4000

\* C8: when the first attempt ends in a non-throttled error or in a reply
\* that cannot be parsed, that attempt is the only one, no sleep follows it
\* and the fallback record is returned.
FirstAttemptFailsUnthrottled(r) ==
  IF r.outcome = None THEN FALSE
  ELSE IF r.tries # <<>> THEN ~IsRateLimitError(r.tries[1].error)
  ELSE r.outcome.reply.kind # "object"

C8_NoRetryUnlessThrottled ==
  (returned # None /\ FirstAttemptFailsUnthrottled(returned)) =>
    /\ returned.attempts = 1
    /\ Len(returned.tries) <= 1
    /\ \A i \in 1..Len(returned.tries) : returned.tries[i].delay = NoSleep
    /\ returned.record = FallbackOf(returned)

C8_Witness ==
  /\ returned # None
  /\ returned.tries = <<[error |-> ErrAuth, delay |-> NoSleep]>>
  /\ returned.attempts = 1
  /\ returned.branch = "caught"

\* C9: when a key that is not cached is added to a cache of 100 entries,
\* exactly one entry goes and it is the one added earliest; a cache hit
\* leaves the earliest-added entry the same.
OldestKey(cache) ==
  cache[CHOOSE i \in 1..Len(cache) :
          \A j \in 1..Len(cache) : cache[i].seq <= cache[j].seq].key

KeyAdded == \E i \in 1..Len(emotionCache') : ~CacheHas(emotionCache, emotionCache'[i].key)

IsHit(r) == IF r = None THEN FALSE ELSE r.branch = "hit"

C9_EvictsOldestInserted ==
  [][/\ (Len(emotionCache) = CACHE_LIMIT /\ emotionCache' # emotionCache /\ KeyAdded)
        => /\ Len(emotionCache') = CACHE_LIMIT
           /\ CacheKeys(emotionCache) \ CacheKeys(emotionCache')
                = {OldestKey(emotionCache)}
     /\ (IsHit(returned') /\ emotionCache # <<>>)
        => /\ emotionCache' # <<>>
           /\ emotionCache'[1].key = emotionCache[1].key
           /\ OldestKey(emotionCache') = OldestKey(emotionCache)]_vars

C9_Witness ==
  /\ evicted # {}
  /\ \E k \in hitKeys : k \in evicted
  /\ Len(emotionCache) = CACHE_LIMIT

\* C10: the cache never holds more than 100 entries.
C10_CacheBounded == Len(emotionCache) <= CACHE_LIMIT

C10_Witness ==
  /\ inserts > CACHE_LIMIT
  /\ Len(emotionCache) = CACHE_LIMIT

\* C11: a classify call that hits the cache returns the label, confidence,
\* intensity, duration and metrics stored under its key, with the timestamp
\* of the call and secondsFromStart = timestamp / 1000, and the hit changes
\* neither the cache, nor the queue, nor the last-request time, nor the
\* request count, and starts no call to the external service.
HitConforms(r, cache) ==
  LET key == CacheKey(r.text, r.duration)
  IN  /\ CacheHas(cache, key)
      /\ r.record.emotion = CacheGet(cache, key).emotion
      /\ r.record.confidence = CacheGet(cache, key).confidence
      /\ r.record.intensity = CacheGet(cache, key).intensity
      /\ r.record.duration = CacheGet(cache, key).duration
      /\ r.record.additionalMetrics = CacheGet(cache, key).additionalMetrics
      /\ r.record.timestamp = r.timestamp
      /\ r.record.secondsFromStart * 1000 = r.timestamp * FloatScale

C11_HitReturnsStored ==
  [][IsHit(returned') =>
       /\ HitConforms(returned', emotionCache)
       /\ UNCHANGED <<emotionCache, requestQueue, isProcessingQueue,
                      timeSinceLastRequest, requestCount, attempt,
                      sinceLastCall, wpc, wreq>>]_vars

C11_Witness ==
  /\ IsHit(returned)
  /\ requestQueue # <<>>
  /\ returned.record.emotion = "happy"
  /\ returned.record.timestamp = CallTimestamp(2)
  /\ returned.text = TextSureSpaced

\* C12: the external service returns a successful reply at most once for a
\* cache key, unless the key was evicted in between.  A key has had a
\* successful reply that no eviction followed when it is cached or when a
\* call for it holds a successful reply it has not yet processed (under
\* Spec every successful reply parses and nothing is evicted).
AnsweredKeys ==
  CacheKeys(emotionCache) \cup
    {CacheKey(args[c].text, args[c].duration) :
       c \in {d \in Calls : IF rpc[d] = "settled" THEN settle[d].ok ELSE FALSE}}

SuccessArrives(c) ==
  /\ rpc[c] = "calling"
  /\ rpc'[c] = "settled"
  /\ settle'[c].ok

C12_NoDuplicateCalls ==
  [][\A c \in Calls :
       SuccessArrives(c) =>
         CacheKey(args[c].text, args[c].duration) \notin AnsweredKeys]_vars

\* C13: when no credential is configured, or the fallback-only flag is set,
\* or the text has fewer than 10 characters, the classify call returns at
\* once the fallback record of its arguments, starts no call to the
\* external service, and leaves the queue, the worker, the last-request
\* time, the request count and the cache as they were.
ClassifyStep(c) == rpc[c] = "new" /\ rpc'[c] # "new"

StepText(c) == IF returned' # None THEN returned'.text ELSE args'[c].text

C13_GuardsUseFallback ==
  [][\A c \in Calls :
       (/\ ClassifyStep(c)
        /\ \/ ~envApiKey
           \/ envFallbackOnly
           \/ Len(StepText(c)) < MIN_TEXT_LENGTH)
       => /\ returned' # None
          /\ returned'.call = c
          /\ returned'.record = FallbackOf(returned')
          /\ UNCHANGED <<requestQueue, isProcessingQueue, timeSinceLastRequest,
                         requestCount, emotionCache, attempt, sinceLastCall,
                         wpc, wreq>>]_vars

C13_Witness ==
  /\ returned # None
  /\ returned.branch = "short"
  /\ envApiKey
  /\ ~envFallbackOnly
  /\ isProcessingQueue
  /\ emotionCache # <<>>

\* C14: the credential and the fallback-only flag are consulted once, at
\* construction: a classify call takes the live path (the cache, then the
\* queue) exactly when the service was constructed with a credential and
\* without the flag and the text is long enough, whatever the environment
\* holds at the time of the call.
ConstructedFallbackOnly == ctorFallbackOnly \/ ~ctorApiKey

TakesLivePath(r) == IF r = None THEN TRUE ELSE r.branch = "hit"

C14_ModeFixedAtConstruction ==
  [][\A c \in Calls :
       ClassifyStep(c) =>
         (TakesLivePath(returned') <=>
            /\ ~ConstructedFallbackOnly
            /\ Len(Trim(StepText(c))) >= MIN_TEXT_LENGTH)]_vars

\* C15: the cache changes only when a call processes a successful reply
\* that parses; the entry then written under the call's key holds the
\* label, confidence, duration, intensity and metrics of the record built
\* from that reply, and every other entry was there before.  A call that
\* returns a fallback record leaves the cache alone, and after a failed
\* live call the key of that call is not cached, so that the next classify
\* of the key goes to the live path.
WrittenFromReply(c, r, cache) ==
  LET key == CacheKey(args[c].text, args[c].duration)
  IN  /\ settle[c].ok
      /\ settle[c].reply.kind = "object"
      /\ r.call = c
      /\ r.branch = "live"
      /\ r.outcome = settle[c]
      /\ CacheHas(cache, key)
      /\ CacheGet(cache, key).emotion = r.record.emotion
      /\ CacheGet(cache, key).confidence = r.record.confidence
      /\ CacheGet(cache, key).duration = r.record.duration
      /\ CacheGet(cache, key).intensity = r.record.intensity
      /\ CacheGet(cache, key).additionalMetrics = r.record.additionalMetrics
      /\ \A i \in 1..Len(cache) :
           cache[i].key # key => \E j \in 1..Len(emotionCache) :
                                   emotionCache[j] = cache[i]

ReturnsFallbackRecord(r) ==
  IF r = None THEN FALSE ELSE r.branch \in {"fallback", "short", "caught"}

Pending(c) == rpc[c] \in {"queued", "calling", "backoff", "settled"}

C16_EveryRequestServed ==
  \A c \in Calls :
    /\ (rpc[c] = "queued") ~> (rpc[c] = "calling")
    /\ Pending(c) ~> (rpc[c] = "done")

\* a request is queued while the worker still awaits the last request it
\* took, which has already settled
C16_Witness ==
  /\ wpc[1] = "run"
  /\ wreq[1] = 1
  /\ rpc[1] \in {"settled", "done"}
  /\ rpc[2] = "queued"
  /\ requestQueue = <<2>>

\* C17: processStreamingMessage returns no record and changes no state
\* when isPartial is true or the text is shorter than 10 characters; in
\* every other case it does what classify(text, timestamp) does.
EventAt(timestamp) == CHOOSE e \in StreamEvents : e.timestamp = timestamp

StepTimestamp(c) ==
  IF returned' # None THEN returned'.timestamp ELSE args'[c].timestamp

\* the step is one of processStreamingMessage that returns null and leaves
\* the service alone
SkippedBy(c) ==
  /\ returned' # None
  /\ returned'.call = c
  /\ returned'.record = Null
  /\ UNCHANGED <<requestQueue, isProcessingQueue, timeSinceLastRequest,
                 requestCount, emotionCache, attempt, sinceLastCall, wpc,
                 wreq, args, settle, timer, wtimer>>

\* the step is what classify(e.message, e.timestamp) does up to its return
\* or its place in the queue
ClassifiedBy(c, e) ==
  IF ~envApiKey \/ envFallbackOnly
  THEN /\ returned' # None
       /\ returned'.record = fallbackTextAnalysis(e.message, e.timestamp, 0)
  ELSE IF CacheHas(emotionCache, CacheKey(e.message, 0))
  THEN /\ returned' # None
       /\ returned'.record # Null
       /\ HitConforms(returned', emotionCache)
  ELSE IF Len(Trim(e.message)) < MIN_TEXT_LENGTH
  THEN /\ returned' # None
       /\ returned'.record = fallbackTextAnalysis(e.message, e.timestamp, 0)
  ELSE /\ returned' = None
       /\ rpc'[c] \in {"queued", "calling"}
       /\ args'[c] = [text |-> e.message, timestamp |-> e.timestamp,
                      duration |-> 0]

C17_StreamSkipsShortOrPartial ==
  [][\A c \in Calls :
       ClassifyStep(c) =>
         LET e == EventAt(StepTimestamp(c))
         IN  IF e.isPartial \/ Len(e.message) < MIN_TEXT_LENGTH
             THEN SkippedBy(c)
             ELSE ClassifiedBy(c, e)]_vars

\* C17 as amended: the length that counts is that of the trimmed text.
C17_StreamSkipsTrimmedShortOrPartial ==
  [][\A c \in Calls :
       ClassifyStep(c) =>
         LET e == EventAt(StepTimestamp(c))
         IN  IF e.isPartial \/ Len(Trim(e.message)) < MIN_TEXT_LENGTH
             THEN SkippedBy(c)
             ELSE ClassifiedBy(c, e)]_vars

C17_Witness ==
  /\ returned # None
  /\ returned.record = Null
  /\ returned.text = TextPadded
  /\ ~EventAt(returned.timestamp).isPartial
  /\ isProcessingQueue
  /\ emotionCache # <<>>

\* C18: the label of the fallback classifier is the category with the
\* highest keyword-occurrence count among confident, nervous, excited,
\* stressed, frustrated, calm, happy, disappointed, the first of them in
\* that order when several share the highest count, and neutral when every
\* count is 0.
CategoryOrder == <<"confident", "nervous", "excited", "stressed", "frustrated",
                   "calm", "happy", "disappointed">>

KeywordsOf(category) ==
  emotionPatterns[CHOOSE i \in 1..Len(emotionPatterns) :
                    emotionPatterns[i].emotion = category].keywords

CountOf(text, category) ==
  KeywordScore(ToLowerCase(text), KeywordsOf(category), 1)

FirstHighest(text) ==
  CHOOSE i \in 1..Len(CategoryOrder) :
    /\ \A j \in 1..Len(CategoryOrder) :
         CountOf(text, CategoryOrder[j]) <= CountOf(text, CategoryOrder[i])
    /\ \A j \in 1..(i - 1) :
         CountOf(text, CategoryOrder[j]) < CountOf(text, CategoryOrder[i])

ExpectedLabel(text) ==
  IF \A i \in 1..Len(CategoryOrder) : CountOf(text, CategoryOrder[i]) = 0
  THEN "neutral"
  ELSE CategoryOrder[FirstHighest(text)]

SameAnswer(x, y) ==
  /\ x.record.emotion = y.record.emotion
  /\ x.record.confidence = y.record.confidence
  /\ x.record.intensity = y.record.intensity
  /\ x.record.additionalMetrics = y.record.additionalMetrics

C20_EmptySessionSummary ==
  (result # None /\ transcriptEmotions = <<>>) =>
    /\ result.summary.averageConfidence = 0
    /\ result.summary.mostFrequentEmotion = "neutral"
    /\ result.summary.emotionalStability = 0
    /\ result.summary.stressIndicators = <<>>
    /\ result.emotionalTrend = "stable"

C20_Witness ==
  /\ transcriptEmotions = <<>>
  /\ result # None
  /\ result.emotions = <<>>
  /\ result.dominantEmotion = "neutral"

\* C21: for a non-empty record list mostFrequentEmotion is a label of the
\* highest occurrence count, and among several labels of that count it is
\* the one that first reached the running maximum when the records are
\* scanned in order.
OccurrencesUpTo(emotions, i) ==
  Cardinality({j \in 1..i : emotions[j].emotion = emotions[i].emotion})

RECURSIVE FirstToRunningMaximum(_, _, _, _)
FirstToRunningMaximum(emotions, i, best, bestCount) ==
  IF i > Len(emotions) THEN best
  ELSE IF OccurrencesUpTo(emotions, i) > bestCount
       THEN FirstToRunningMaximum(emotions, i + 1, emotions[i].emotion,
                                  OccurrencesUpTo(emotions, i))
       ELSE FirstToRunningMaximum(emotions, i + 1, best, bestCount)

HasHighestCount(emotions, label) ==
  \A i \in 1..Len(emotions) :
    EmotionCount(emotions, label) >= EmotionCount(emotions, emotions[i].emotion)

C21_MostFrequentFirstToMaximum ==
  (result # None /\ transcriptEmotions # <<>>) =>
    /\ HasHighestCount(transcriptEmotions, result.summary.mostFrequentEmotion)
    /\ result.summary.mostFrequentEmotion =
         FirstToRunningMaximum(transcriptEmotions, 1, "neutral", 0)

\* C21 as amended: among the labels of the highest count, mostFrequentEmotion
\* is the one that occurs first in the record list.
C21_MostFrequentFirstSeen ==
  (result # None /\ transcriptEmotions # <<>>) =>
    \E k \in 1..Len(transcriptEmotions) :
      /\ result.summary.mostFrequentEmotion = transcriptEmotions[k].emotion
      /\ HasHighestCount(transcriptEmotions, transcriptEmotions[k].emotion)
      /\ \A j \in 1..(k - 1) :
           ~HasHighestCount(transcriptEmotions, transcriptEmotions[j].emotion)

\* two labels share the highest count, and the one returned is not the one
\* that reached that count first
C21_Witness ==
  /\ result # None
  /\ Len(transcriptEmotions) = 4
  /\ \E i, j \in 1..4 :
       /\ transcriptEmotions[i].emotion # transcriptEmotions[j].emotion
       /\ HasHighestCount(transcriptEmotions, transcriptEmotions[i].emotion)
       /\ HasHighestCount(transcriptEmotions, transcriptEmotions[j].emotion)
  /\ result.summary.mostFrequentEmotion = transcriptEmotions[1].emotion
  /\ result.summary.mostFrequentEmotion #
       FirstToRunningMaximum(transcriptEmotions, 1, "neutral", 0)

\* C22: for a non-empty record list, stressIndicators holds 'High frequency
\* of stressed/nervous responses' exactly when more than 0.3 of the records
\* are labelled stressed or nervous, 'Elevated stress levels detected'
\* exactly when the mean stress level exceeds 0.6, and 'High emotional
\* volatility' exactly when emotionalStability = max(0, 1 - distinct/total)
\* is below 0.5; each is decided on its own and they appear in this order.
FlagFrequent == <<"High frequency of stressed/nervous responses">>
FlagElevated == <<"Elevated stress levels detected">>
FlagVolatile == <<"High emotional volatility">>

StressedOrNervous(emotions) ==
  Cardinality({i \in 1..Len(emotions) :
                 emotions[i].emotion \in {"stressed", "nervous"}})

StressTotal(emotions) ==
  LET Indices == 1..Len(emotions)
      RECURSIVE Total(_)
      Total(S) == IF S = {} THEN 0
                  ELSE LET i == CHOOSE x \in S : TRUE
                       IN  emotions[i].additionalMetrics.stress_level
                           + Total(S \ {i})
  IN  Total(Indices)

DistinctLabels(emotions) ==
  Cardinality({emotions[i].emotion : i \in 1..Len(emotions)})

ExpectedFlags(emotions) ==
  LET n == Len(emotions)
  IN  (IF 10 * StressedOrNervous(emotions) > 3 * n THEN FlagFrequent ELSE <<>>)
      \o (IF StressTotal(emotions) > 600 * n THEN FlagElevated ELSE <<>>)
      \o (IF 2 * DistinctLabels(emotions) > n THEN FlagVolatile ELSE <<>>)

C22_StressIndicators ==
  (result # None /\ transcriptEmotions # <<>>) =>
    /\ result.summary.stressIndicators = ExpectedFlags(transcriptEmotions)
    /\ (result.summary.emotionalStability < FloatScale \div 2)
         <=> (2 * DistinctLabels(transcriptEmotions) > Len(transcriptEmotions))
    /\ Len(result.summary.stressIndicators) \in 0..3

\* the second flag alone: a session that is calm by its labels and settled
\* (stability exactly 0.5), and tense by its stress levels
C22_Witness ==
  /\ result # None
  /\ Len(transcriptEmotions) = 2
  /\ result.summary.stressIndicators = FlagElevated
  /\ result.summary.emotionalStability = FloatScale \div 2
  /\ StressedOrNervous(transcriptEmotions) = 0

\* C23: emotionalTrend is stable for fewer than 3 records; otherwise, with
\* the first half the first floor(n/2) records and the second half the rest
\* (the extra record of an odd-length list goes to the second half), it is
\* improving when the second half's ratio of labels in {happy, confident,
\* excited, calm} exceeds the first half's by more than 0.1, declining when
\* it is lower by more than 0.1, and stable otherwise.
IsPositive(record) == record.emotion \in {"happy", "confident", "excited", "calm"}

Positives(records) ==
  Cardinality({i \in 1..Len(records) : IsPositive(records[i])})

FirstHalf(records) == SubSeq(records, 1, Len(records) \div 2)
SecondHalf(records) == SubSeq(records, Len(records) \div 2 + 1, Len(records))

\* ten times (ratio of the second half - ratio of the first half), times
\* the two lengths
RatioGainTimesTen(records) ==
  10 * (Positives(SecondHalf(records)) * Len(FirstHalf(records))
        - Positives(FirstHalf(records)) * Len(SecondHalf(records)))

ExpectedTrend(records) ==
  IF Len(records) < 3 THEN "stable"
  ELSE LET unit == Len(FirstHalf(records)) * Len(SecondHalf(records))
       IN  IF RatioGainTimesTen(records) > unit THEN "improving"
           ELSE IF RatioGainTimesTen(records) < -unit THEN "declining"
           ELSE "stable"

C23_TrendByHalves ==
  (result # None) =>
    /\ result.emotionalTrend = ExpectedTrend(transcriptEmotions)
    /\ Len(SecondHalf(transcriptEmotions)) - Len(FirstHalf(transcriptEmotions))
         \in {0, 1}

\* three records, only the middle one positive: improving, because the
\* middle record counts with the second half
C23_Witness ==
  /\ result # None
  /\ Len(transcriptEmotions) = 3
  /\ ~IsPositive(transcriptEmotions[1])
  /\ IsPositive(transcriptEmotions[2])
  /\ ~IsPositive(transcriptEmotions[3])
  /\ result.emotionalTrend = "improving"

\* C24: every phrase of the test script, classified by the fallback
\* classifier, gets the label the script expects for it: confident, nervous,
\* stressed, excited, happy, disappointed, calm and uncertain for the
\* phrases 1 to 8.
PhraseOf(text) == CHOOSE i \in 1..Len(testPhrases) : testPhrases[i].text = text

C24_TestPhrasesAsExpected ==
  returned # None =>
    returned.record.emotion = testPhrases[PhraseOf(returned.text)].expectedEmotion

\* C25: a session of 5 records has halves, as the aggregator forms them, in
\* which the positive ratios 2/3 (first half) and 4/5 (second half) occur,
\* and with these ratios (a gain of more than 0.1) its trend is improving.
RatioCanOccur(num, den, length) == \E k \in 0..length : den * k = num * length

HalvesHaveRatios(records, firstNum, firstDen, secondNum, secondDen) ==
  /\ firstDen * Positives(firstHalf(records))
       = firstNum * Len(firstHalf(records))
  /\ secondDen * Positives(secondHalf(records))
       = secondNum * Len(secondHalf(records))

C25_FiveRecordsTwoThirdsFourFifths ==
  (result # None /\ Len(result.emotions) = 5) =>
    /\ RatioCanOccur(2, 3, Len(firstHalf(result.emotions)))
    /\ RatioCanOccur(4, 5, Len(secondHalf(result.emotions)))
    /\ HalvesHaveRatios(result.emotions, 2, 3, 4, 5)
         => result.emotionalTrend = "improving"

\* C25 as amended: a session of 5 records is split into its first 2 and its
\* last 3 records, so that the ratios 2/3 and 4/5 do not occur together;
\* with the positive ratio 1/2 in the first half and 2/3 in the second (a
\* gain of more than 0.1) its trend is improving.
C25_FiveRecordsHalfTwoThirds ==
  (result # None /\ Len(result.emotions) = 5) =>
    /\ firstHalf(result.emotions) = SubSeq(transcriptEmotions, 1, 2)
    /\ secondHalf(result.emotions) = SubSeq(transcriptEmotions, 3, 5)
    /\ ~HalvesHaveRatios(result.emotions, 2, 3, 4, 5)
    /\ (/\ Positives(SubSeq(transcriptEmotions, 1, 2)) = 1
        /\ Positives(SubSeq(transcriptEmotions, 3, 5)) = 2)
         => result.emotionalTrend = "improving"

C25_Witness ==
  /\ result # None
  /\ Len(transcriptEmotions) = 5
  /\ HalvesHaveRatios(transcriptEmotions, 1, 2, 2, 3)
  /\ transcriptEmotions[2].emotion = "neutral"
  /\ result.emotionalTrend = "improving"

\* C26: when a record is built from a parsed live reply, a field takes its
\* default (confidence 0.5, intensity medium, each metric 0.5, speaking pace
\* normal) only when the reply lacks it; a value the reply supplies within
\* range, the value 0 included, appears unchanged in the record.
BuiltFromReply(r) ==
  IF r = None THEN FALSE
  ELSE /\ r.branch = "live"
       /\ r.outcome.ok
       /\ r.outcome.reply.kind = "object"

NumberKept(field, value) ==
  IF field = Absent THEN value = FloatScale \div 2
  ELSE (field[1] \in 0..FloatScale) => value = field[1]

StringKept(field, value, default) ==
  IF field = Absent THEN value = default ELSE value = field[1]

C26_DefaultsOnlyForMissingFields ==
  BuiltFromReply(returned) =>
    LET reply == returned.outcome.reply
        record == returned.record
    IN  /\ NumberKept(reply.confidence, record.confidence)
        /\ StringKept(reply.intensity, record.intensity, "medium")
        /\ NumberKept(reply.stress_level, record.additionalMetrics.stress_level)
        /\ NumberKept(reply.energy_level, record.additionalMetrics.energy_level)
        /\ StringKept(reply.speaking_pace,
                      record.additionalMetrics.speaking_pace, "normal")
        /\ NumberKept(reply.voice_stability,
                      record.additionalMetrics.voice_stability)

\* C27: for any sequence of outcomes of the external service, the number of
\* attempts made for one request is the position of the first outcome that
\* is a success or a non-throttled failure, capped at MAX_RETRIES = 3; a
\* success on attempt 2 or 3 yields the live record, which is cached, and
\* not a fallback record; a throttled failure followed by a non-throttled
\* failure ends after 2 attempts with the fallback record.
WentThroughQueue(r) == IF r = None THEN FALSE ELSE r.outcome # None

\* the attempts before the last one all failed as throttled, and the last
\* one is a success, a non-throttled failure, or the third
AttemptsStopAtFirstFinal(r) ==
  /\ r.attempts \in 1..MAX_RETRIES
  /\ r.attempts = Len(r.tries) + (IF r.outcome.ok THEN 1 ELSE 0)
  /\ \A i \in 1..(r.attempts - 1) : IsRateLimitError(r.tries[i].error)
  /\ \/ r.outcome.ok
     \/ r.attempts = MAX_RETRIES
     \/ ~IsRateLimitError(r.tries[r.attempts].error)

YieldsCachedLiveRecord(r, cache) ==
  /\ r.branch = "live"
  /\ r.record = BuildEmotionData(r.outcome.reply, r.timestamp, r.duration)
  /\ CacheHas(cache, CacheKey(r.text, r.duration))
  /\ CacheGet(cache, CacheKey(r.text, r.duration)).emotion = r.record.emotion

ThrottledThenOther(r) ==
  /\ ~r.outcome.ok
  /\ Len(r.tries) >= 2
  /\ IsRateLimitError(r.tries[1].error)
  /\ ~IsRateLimitError(r.tries[2].error)

HasFlag(flags, flag) == \E i \in 1..Len(flags) : <<flags[i]>> = flag

C28_StabilityBelowOne ==
  (result # None /\ transcriptEmotions # <<>>) =>
    /\ result.summary.emotionalStability >= 0
    /\ result.summary.emotionalStability < FloatScale
    /\ Len(transcriptEmotions) = 1 =>
         /\ result.summary.emotionalStability = 0
         /\ HasFlag(result.summary.stressIndicators, FlagVolatile)

\* one record with a positive label and a low stress level: the only flag
\* is the volatility one
C28_Witness ==
  /\ result # None
  /\ Len(transcriptEmotions) = 1
  /\ transcriptEmotions[1].emotion = "happy"
  /\ result.summary.emotionalStability = 0
  /\ result.summary.stressIndicators = FlagVolatile

\* ------------------------------------------------------------------ C29
\* the step puts the record of a call on emotionHistory
AppendsRecord == returned' # None /\ emotionHistory' # emotionHistory

\* the record the step returns becomes the last of the list
PutLast == emotionHistory' = Append(emotionHistory, returned'.record)

\* every call the hook started before call c has its record on the list
EarlierCallsAppended(c) == \A d \in 1..(c - 1) : rpc[d] = "done"

\* C29: records reach emotionHistory in the order in which the hook
\* started their classify calls: when the record of a call is appended, the
\* record of every call started before it is on the list already, whether
\* the calls were queued live calls, cache hits or fallback results.
C29_RecordsInSubmissionOrder ==
  [][AppendsRecord =>
       PutLast /\ EarlierCallsAppended(returned'.call)]_vars

\* C29, amended: records reach emotionHistory in the order in which the
\* hook started their classify calls, except that the record of a call
\* answered without the queue (a cache hit, a fallback result) is appended
\* ahead of the records of earlier calls that are still in the queue.
C29_RecordsInSubmissionOrderUnlessQueued ==
  [][AppendsRecord =>
       /\ PutLast
       /\ \/ EarlierCallsAppended(returned'.call)
          \/ ~WentThroughQueue(returned')]_vars

\* two calls went through the queue, and the record of the first stands
\* before the record of the second
C29_Witness ==
  /\ Len(emotionHistory) = 2
  /\ WentThroughQueue(returned)
  /\ returned.call = 2
  /\ emotionHistory[1] =
       BuildEmotionData(ReplyFull, CallTimestamp(1), HookDuration)
  /\ emotionHistory[2].timestamp = CallTimestamp(2)

\* ------------------------------------------------------------------ C30
\* the labels of a list of records, in order
Labels(records) == [i \in 1..Len(records) |-> records[i].emotion]

\* C30: the emotionAnalysis the hook recomputes after emotionHistory has
\* changed summarizes the records of emotionHistory: once the analysis
\* timer has fired and until the list changes again, the analysis holds as
\* many records as the list, with the same labels in the same order, and
\* its summary and its trend are those of the list's records.
C30_AnalysisSummarizesHistory ==
  (emotionAnalysis # None /\ ~effectTimer) =>
    /\ Len(emotionAnalysis.emotions) = Len(emotionHistory)
    /\ Labels(emotionAnalysis.emotions) = Labels(emotionHistory)
    /\ emotionAnalysis.summary = calculateEmotionSummary(emotionHistory)
    /\ emotionAnalysis.emotionalTrend = calculateEmotionalTrend(emotionHistory)

====
